---------------------------- MODULE Spec2Model ----------------------------
(***************************************************************************)
(* A model of the UDP video transport of weak-network-video-streaming:     *)
(* the packet codec and the fragmenter of common/network_utils/protocol.py,*)
(* the network monitor and classifier of common/network_utils/monitoring.py*)
(* the adaptive encoder controller of server/encoder/adaptive_encoder.py   *)
(* and the transport server and client of server/network and               *)
(* client/network.                                                         *)
(*                                                                         *)
(* Conventions.  A byte string is a sequence of integers 0..255.  A Python *)
(* object is a record; None is the record NoneVal.  Times are integers in  *)
(* microseconds (a Python float of seconds holds more digits than the      *)
(* millisecond the wire format keeps, and so does a microsecond count).    *)
(* Fractions (loss ratios, scale factors) are integers per thousand or per *)
(* million, named so at their definitions.                                 *)
(***************************************************************************)
EXTENDS Integers, Sequences, FiniteSets, TLC

(***************************************************************************)
(* Bytes                                                                   *)
(***************************************************************************)
NoneVal == [packet_type |-> -1]

Min(a, b) == IF a <= b THEN a ELSE b

Max(a, b) == IF a >= b THEN a ELSE b

RECURSIVE Pow256(_)
Pow256(k) == IF k = 0 THEN 1 ELSE 256 * Pow256(k - 1)

\* struct.pack of one unsigned big-endian field of w bytes.  The values of
\* the model are below 2^31, so the bytes above the fourth are zero.
BE(n, w) == [i \in 1..w |-> IF w - i > 3 THEN 0 ELSE (n \div Pow256(w - i)) % 256]

\* struct.unpack of one unsigned big-endian field.
RECURSIVE FromBE(_)
FromBE(b) == IF b = <<>> THEN 0 ELSE 256 * FromBE(SubSeq(b, 1, Len(b) - 1)) + b[Len(b)]

\* Python's slice data[a:b] with 0 <= a, written with 0-based bounds.
Slice(s, a, b) == SubSeq(s, a + 1, Min(b, Len(s)))

\* Python's slice data[a:].
SliceFrom(s, a) == SubSeq(s, a + 1, Len(s))

RECURSIVE Concat(_)
Concat(ss) == IF ss = <<>> THEN <<>> ELSE Head(ss) \o Concat(Tail(ss))

\* a ^ b on two bytes, bit by bit.
RECURSIVE XorBits(_, _, _)
XorBits(a, b, k) ==
    IF k = 0 THEN 0
    ELSE (((a % 2) + (b % 2)) % 2) + 2 * XorBits(a \div 2, b \div 2, k - 1)

\* (b is looked at first, so that its value is there before the bits are
\* walked: a ^ 0 = a.)
Xor(a, b) == IF b = 0 THEN a ELSE XorBits(a, b, 8)

(***************************************************************************)
(* json.dumps and json.loads on the values the transport puts in control   *)
(* and heartbeat bodies: a dict, in insertion order, from string keys to   *)
(* integers or lists of integers.  A dict is a sequence of [k, v] records, *)
(* a value is [t |-> "int", n |-> ..] or [t |-> "list", l |-> <<..>>].     *)
(***************************************************************************)
JInt(n) == [t |-> "int", n |-> n, l |-> <<>>]

JList(l) == [t |-> "list", n |-> 0, l |-> l]

JPair(k, v) == [k |-> k, v |-> v]

\* The ASCII codes of the keys the source uses.
KeyBytes(k) ==
    CASE k = "missing_seqs" -> <<109, 105, 115, 115, 105, 110, 103, 95, 115, 101, 113, 115>>
      [] k = "rtt" -> <<114, 116, 116>>
      [] k = "packet_loss" -> <<112, 97, 99, 107, 101, 116, 95, 108, 111, 115, 115>>
      [] k = "bandwidth" -> <<98, 97, 110, 100, 119, 105, 100, 116, 104>>
      [] k = "received_frames" ->
            <<114, 101, 99, 101, 105, 118, 101, 100, 95, 102, 114, 97, 109, 101, 115>>
      [] k = "missing_packets" ->
            <<109, 105, 115, 115, 105, 110, 103, 95, 112, 97, 99, 107, 101, 116, 115>>

RECURSIVE NatBytes(_)
NatBytes(n) == IF n < 10 THEN <<48 + n>> ELSE NatBytes(n \div 10) \o <<48 + (n % 10)>>

IntBytes(n) == IF n < 0 THEN <<45>> \o NatBytes(-n) ELSE NatBytes(n)

\* The items of a list with ", " between them (the list is halved rather
\* than walked, to keep the evaluation shallow).
RECURSIVE ListBytes(_)
ListBytes(l) ==
    IF l = <<>> THEN <<>>
    ELSE IF Len(l) = 1 THEN IntBytes(l[1])
    ELSE ListBytes(SubSeq(l, 1, Len(l) \div 2)) \o <<44, 32>>
            \o ListBytes(SubSeq(l, Len(l) \div 2 + 1, Len(l)))

ValueBytes(v) == IF v.t = "int" THEN IntBytes(v.n) ELSE <<91>> \o ListBytes(v.l) \o <<93>>

RECURSIVE PairsBytes(_)
PairsBytes(d) ==
    IF d = <<>> THEN <<>>
    ELSE <<34>> \o KeyBytes(Head(d).k) \o <<34, 58, 32>> \o ValueBytes(Head(d).v)
         \o (IF Len(d) > 1 THEN <<44, 32>> ELSE <<>>) \o PairsBytes(Tail(d))

\* json.dumps(d).encode() of a dict d.
JsonDumps(d) == <<123>> \o PairsBytes(d) \o <<125>>

JsonKeys ==
    {"missing_seqs", "rtt", "packet_loss", "bandwidth", "received_frames", "missing_packets"}

At(b, i) == IF i >= 1 /\ i <= Len(b) THEN b[i] ELSE -1

IsDigit(c) == c >= 48 /\ c <= 57

RECURSIVE ParseDigits(_, _, _)
ParseDigits(b, i, acc) ==
    IF IsDigit(At(b, i)) THEN ParseDigits(b, i + 1, acc * 10 + (At(b, i) - 48))
    ELSE [n |-> acc, pos |-> i]

\* The operators below that take r, an intermediate result, are the
\* continuations of the parser after the call that produced r.
IntResult(negative, r) ==
    [ok |-> TRUE, n |-> IF negative THEN -r.n ELSE r.n, pos |-> r.pos]

ParseIntFrom(b, i, j) ==
    IF ~IsDigit(At(b, j)) THEN [ok |-> FALSE, n |-> 0, pos |-> j]
    ELSE IntResult(j > i, ParseDigits(b, j, 0))

ParseIntAt(b, i) == ParseIntFrom(b, i, IF At(b, i) = 45 THEN i + 1 ELSE i)

RECURSIVE ParseListItems(_, _, _)
ParseListStep(b, i, acc, r) ==
    IF ~r.ok THEN [ok |-> FALSE, l |-> <<>>, pos |-> i]
    ELSE IF At(b, r.pos) = 93 THEN [ok |-> TRUE, l |-> Append(acc, r.n), pos |-> r.pos + 1]
    ELSE IF At(b, r.pos) = 44 /\ At(b, r.pos + 1) = 32
         THEN ParseListItems(b, r.pos + 2, Append(acc, r.n))
    ELSE [ok |-> FALSE, l |-> <<>>, pos |-> r.pos]

ParseListItems(b, i, acc) == ParseListStep(b, i, acc, ParseIntAt(b, i))

ListValue(r) == [ok |-> r.ok, v |-> JList(r.l), pos |-> r.pos]

IntValue(r) == [ok |-> r.ok, v |-> JInt(r.n), pos |-> r.pos]

ParseValueAt(b, i) ==
    IF At(b, i) = 91
    THEN IF At(b, i + 1) = 93 THEN [ok |-> TRUE, v |-> JList(<<>>), pos |-> i + 2]
         ELSE ListValue(ParseListItems(b, i + 1, <<>>))
    ELSE IntValue(ParseIntAt(b, i))

KeyIs(b, i, kb) ==
    /\ At(b, i) = 34
    /\ i + Len(kb) + 1 <= Len(b)
    /\ SubSeq(b, i + 1, i + Len(kb)) = kb
    /\ b[i + Len(kb) + 1] = 34

KeyAt(b, i, k) == KeyIs(b, i, KeyBytes(k))

RECURSIVE ParsePairsAt(_, _, _)
ParsePairsValue(b, acc, k, r) ==
    IF ~r.ok THEN [ok |-> FALSE, d |-> <<>>, pos |-> r.pos]
    ELSE IF At(b, r.pos) = 125
         THEN [ok |-> TRUE, d |-> Append(acc, JPair(k, r.v)), pos |-> r.pos + 1]
    ELSE IF At(b, r.pos) = 44 /\ At(b, r.pos + 1) = 32
         THEN ParsePairsAt(b, r.pos + 2, Append(acc, JPair(k, r.v)))
    ELSE [ok |-> FALSE, d |-> <<>>, pos |-> r.pos]

ParsePairsKey(b, acc, k, j) ==
    IF ~(At(b, j) = 58 /\ At(b, j + 1) = 32) THEN [ok |-> FALSE, d |-> <<>>, pos |-> j]
    ELSE ParsePairsValue(b, acc, k, ParseValueAt(b, j + 2))

ParsePairsAt(b, i, acc) ==
    IF \A k \in JsonKeys : ~KeyAt(b, i, k) THEN [ok |-> FALSE, d |-> <<>>, pos |-> i]
    ELSE ParsePairsKey(b, acc, CHOOSE kk \in JsonKeys : KeyAt(b, i, kk),
                       i + 2 + Len(KeyBytes(CHOOSE kk \in JsonKeys : KeyAt(b, i, kk))))

LoadsResult(b, r) ==
    [ok |-> r.ok /\ r.pos = Len(b) + 1, d |-> IF r.ok THEN r.d ELSE <<>>]

\* json.loads(b.decode()): [ok |-> FALSE] stands for the exception it raises
\* on text that is not one JSON document.
JsonLoads(b) ==
    IF At(b, 1) # 123 THEN [ok |-> FALSE, d |-> <<>>]
    ELSE IF At(b, 2) = 125 THEN [ok |-> Len(b) = 2, d |-> <<>>]
    ELSE LoadsResult(b, ParsePairsAt(b, 2, <<>>))

\* the dict a from_base keeps: {} when json.loads raised.
LoadedOrEmpty(loaded) == IF loaded.ok THEN loaded.d ELSE <<>>

\* dict.get(key, default) on a parsed dict.
DictHas(d, k) == \E i \in 1..Len(d) : d[i].k = k

DictGet(d, k) == d[CHOOSE i \in 1..Len(d) : d[i].k = k].v

(***************************************************************************)
(* Packets (common/network_utils/protocol.py)                              *)
(***************************************************************************)
PACKET_TYPE_VIDEO == 0

PACKET_TYPE_AUDIO == 1

PACKET_TYPE_CONTROL == 2

PACKET_TYPE_FEC == 3

PACKET_TYPE_HEARTBEAT == 4

HEADER_SIZE == 18

FLAG_KEYFRAME == 1

FLAG_ROI == 2

FLAG_FRAGMENT == 4

FLAG_FRAGMENT_END == 8

CTRL_TYPE_ACK == 0

CTRL_TYPE_NACK == 1

CTRL_TYPE_STATS == 2

CTRL_TYPE_CONFIG == 3

\* flags & bit, for a one-bit mask.
HasFlag(flags, bit) == (flags \div bit) % 2 = 1

\* Packet.__init__
Packet(packet_type, seq_num, timestamp, flags, payload) ==
    [packet_type |-> packet_type, seq_num |-> seq_num, timestamp |-> timestamp,
     flags |-> flags, payload |-> payload]

\* struct.pack("!BIQBI", ...) with int(self.timestamp * 1000): the
\* timestamp goes on the wire in whole milliseconds.
PackHeader(p, payload_len) ==
    BE(p.packet_type, 1) \o BE(p.seq_num, 4) \o BE(p.timestamp \div 1000, 8)
        \o BE(p.flags, 1) \o BE(payload_len, 4)

\* VideoPacket.__init__
VideoPacket(seq_num, timestamp, flags, payload, frame_index, fragment_index, total_fragments) ==
    [packet_type |-> PACKET_TYPE_VIDEO, seq_num |-> seq_num, timestamp |-> timestamp,
     flags |-> flags, payload |-> payload, frame_index |-> frame_index,
     fragment_index |-> fragment_index, total_fragments |-> total_fragments,
     video_header |-> BE(frame_index, 4) \o BE(fragment_index, 2) \o BE(total_fragments, 2)]

is_keyframe(p) == HasFlag(p.flags, FLAG_KEYFRAME)

is_fragment(p) == HasFlag(p.flags, FLAG_FRAGMENT)

is_last_fragment(p) == HasFlag(p.flags, FLAG_FRAGMENT_END)

\* ControlPacket.__init__
ControlPacket(seq_num, ctrl_type, ctrl_data, timestamp) ==
    [packet_type |-> PACKET_TYPE_CONTROL, seq_num |-> seq_num, timestamp |-> timestamp,
     flags |-> 0, payload |-> JsonDumps(ctrl_data), ctrl_type |-> ctrl_type,
     ctrl_data |-> ctrl_data]

\* HeartbeatPacket.__init__
HeartbeatPacket(seq_num, timestamp, client_stats) ==
    [packet_type |-> PACKET_TYPE_HEARTBEAT, seq_num |-> seq_num, timestamp |-> timestamp,
     flags |-> 0, payload |-> JsonDumps(client_stats), client_stats |-> client_stats]

MaxLen(packets) ==
    IF packets = <<>> THEN 0
    ELSE LET S == {Len(packets[i].payload) : i \in 1..Len(packets)}
         IN  CHOOSE m \in S : \A n \in S : n <= m

RECURSIVE XorAt(_, _)
XorAt(packets, i) ==
    IF packets = <<>> THEN 0
    ELSE Xor(IF i <= Len(Head(packets).payload) THEN Head(packets).payload[i] ELSE 0,
             XorAt(Tail(packets), i))

\* FECPacket._compute_fec: the XOR of the payloads, each as long as it is.
compute_fec(packets) == [i \in 1..MaxLen(packets) |-> XorAt(packets, i)]

\* FECPacket.__init__.  source_packets is the list of source packets (<<>>
\* for None); the record keeps their seq_nums, all the object reads of them
\* after construction.  has_fec_data is "fec_data is not None".
\* source_seq_nums is the attribute from_base adds.
FECPacket(seq_num, block_index, timestamp, source_packets, has_fec_data, fec_data) ==
    LET data == IF source_packets # <<>> /\ ~has_fec_data THEN compute_fec(source_packets)
                ELSE IF has_fec_data THEN fec_data ELSE <<>>
        seqs == [i \in 1..Len(source_packets) |-> source_packets[i].seq_num]
        fec_header == BE(block_index, 4) \o BE(Len(source_packets), 2)
                        \o Concat([i \in 1..Len(seqs) |-> BE(seqs[i], 4)])
    IN  [packet_type |-> PACKET_TYPE_FEC, seq_num |-> seq_num, timestamp |-> timestamp,
         flags |-> 0, payload |-> fec_header \o data, block_index |-> block_index,
         source_packets |-> seqs, fec_data |-> data, fec_header |-> fec_header,
         source_seq_nums |-> <<>>]

\* Packet.serialize
Packet_serialize(p) == PackHeader(p, Len(p.payload)) \o p.payload

\* VideoPacket.serialize
VideoPacket_serialize(p) ==
    PackHeader(p, Len(p.video_header \o p.payload)) \o p.video_header \o p.payload

\* packet.serialize(), by the class of the packet.
serialize(p) ==
    IF p.packet_type = PACKET_TYPE_VIDEO THEN VideoPacket_serialize(p) ELSE Packet_serialize(p)

\* VideoPacket.from_base
VideoPacket_from_base(base) ==
    IF Len(base.payload) < 8 THEN NoneVal
    ELSE VideoPacket(base.seq_num, base.timestamp, base.flags, SliceFrom(base.payload, 8),
                     FromBE(Slice(base.payload, 0, 4)), FromBE(Slice(base.payload, 4, 6)),
                     FromBE(Slice(base.payload, 6, 8)))

\* ControlPacket.from_base
ControlPacket_from_base(base) ==
    IF base.payload = <<>> THEN NoneVal
    ELSE ControlPacket(base.seq_num, base.payload[1],
                       LoadedOrEmpty(JsonLoads(SliceFrom(base.payload, 1))), base.timestamp)

\* FECPacket.from_base
FECPacket_from_base(base) ==
    IF Len(base.payload) < 6 THEN NoneVal
    ELSE LET block_index == FromBE(Slice(base.payload, 0, 4))
             num_source_packets == FromBE(Slice(base.payload, 4, 6))
             fits == {i \in 0..(num_source_packets - 1) : 6 + i * 4 + 4 <= Len(base.payload)}
             source_seq_nums ==
                 [i \in 1..Cardinality(fits) |->
                     FromBE(Slice(base.payload, 6 + (i - 1) * 4, 6 + (i - 1) * 4 + 4))]
             data_offset == 6 + num_source_packets * 4
             fec_data == IF data_offset < Len(base.payload)
                         THEN SliceFrom(base.payload, data_offset) ELSE <<>>
         IN  [FECPacket(base.seq_num, block_index, base.timestamp, <<>>, TRUE, fec_data)
                 EXCEPT !.source_seq_nums = source_seq_nums]

\* HeartbeatPacket.from_base
HeartbeatPacket_from_base(base) ==
    HeartbeatPacket(base.seq_num, base.timestamp, LoadedOrEmpty(JsonLoads(base.payload)))

\* Packet.deserialize, from the base packet on: the class by packet_type.
FromBase(base) ==
    CASE base.packet_type = PACKET_TYPE_VIDEO -> VideoPacket_from_base(base)
      [] base.packet_type = PACKET_TYPE_CONTROL -> ControlPacket_from_base(base)
      [] base.packet_type = PACKET_TYPE_FEC -> FECPacket_from_base(base)
      [] base.packet_type = PACKET_TYPE_HEARTBEAT -> HeartbeatPacket_from_base(base)
      [] OTHER -> base

\* Packet.deserialize, from the unpacked payload_size on.
DeserializeBody(data, payload_size) ==
    IF Len(data) < HEADER_SIZE + payload_size THEN NoneVal
    ELSE FromBase(Packet(FromBE(Slice(data, 0, 1)), FromBE(Slice(data, 1, 5)),
                         FromBE(Slice(data, 5, 13)) * 1000, FromBE(Slice(data, 13, 14)),
                         Slice(data, HEADER_SIZE, HEADER_SIZE + payload_size)))

\* Packet.deserialize; timestamp / 1000.0 gives the seconds back.
Packet_deserialize(data) ==
    IF Len(data) < HEADER_SIZE THEN NoneVal
    ELSE DeserializeBody(data, FromBE(Slice(data, 14, 18)))

(***************************************************************************)
(* Fragmenting and reassembly (common/network_utils/protocol.py)           *)
(***************************************************************************)
\* The flags with FLAG_FRAGMENT_END put on the first fragment.
FragmentFlags_end_first(keyframe, total_fragments, i) ==
    (IF keyframe THEN FLAG_KEYFRAME ELSE 0)
    + (IF total_fragments > 1 THEN FLAG_FRAGMENT ELSE 0)
    + (IF total_fragments > 1 /\ i = 0 THEN FLAG_FRAGMENT_END ELSE 0)

\* The flags of fragment i of total_fragments.
FragmentFlags(keyframe, total_fragments, i) ==
    (IF keyframe THEN FLAG_KEYFRAME ELSE 0)
    + (IF total_fragments > 1 THEN FLAG_FRAGMENT ELSE 0)
    + (IF total_fragments > 1 /\ i = total_fragments - 1 THEN FLAG_FRAGMENT_END ELSE 0)

\* fragment_video_frame with the slice of each fragment one byte short:
\* frame_data[start:end - 1].
fragment_video_frame_short(frame_data, frame_index, timestamp, keyframe, max_payload_size, seq_start) ==
    LET total_size == Len(frame_data)
        total_fragments == (total_size + max_payload_size - 1) \div max_payload_size
    IN  [k \in 1..total_fragments |->
            LET i == k - 1
                start == i * max_payload_size
                end == Min(start + max_payload_size, total_size)
            IN  VideoPacket(seq_start + i, timestamp, FragmentFlags(keyframe, total_fragments, i),
                            Slice(frame_data, start, end - 1), frame_index, i, total_fragments)]

\* fragment_video_frame
fragment_video_frame(frame_data, frame_index, timestamp, keyframe, max_payload_size, seq_start) ==
    LET total_size == Len(frame_data)
        total_fragments == (total_size + max_payload_size - 1) \div max_payload_size
    IN  [k \in 1..total_fragments |->
            LET i == k - 1
                start == i * max_payload_size
                end == Min(start + max_payload_size, total_size)
            IN  VideoPacket(seq_start + i, timestamp, FragmentFlags(keyframe, total_fragments, i),
                            Slice(frame_data, start, end), frame_index, i, total_fragments)]

\* list.sort(key=lambda x: x.fragment_index): a stable sort.
RECURSIVE InsertByIndex(_, _)
InsertByIndex(sorted, p) ==
    IF sorted = <<>> THEN <<p>>
    ELSE IF sorted[Len(sorted)].fragment_index <= p.fragment_index THEN Append(sorted, p)
    ELSE Append(InsertByIndex(SubSeq(sorted, 1, Len(sorted) - 1), p), sorted[Len(sorted)])

RECURSIVE SortByIndex(_)
SortByIndex(l) ==
    IF l = <<>> THEN <<>>
    ELSE InsertByIndex(SortByIndex(SubSeq(l, 1, Len(l) - 1)), l[Len(l)])

\* reassemble_video_frame
reassemble_video_frame(fragments) ==
    IF fragments = <<>> THEN NoneVal
    ELSE IF Len(fragments) # fragments[1].total_fragments THEN NoneVal
    ELSE LET sorted == SortByIndex(fragments)
         IN  IF \E i \in 1..Len(sorted) : sorted[i].fragment_index # i - 1 THEN NoneVal
             ELSE [data |-> Concat([i \in 1..Len(sorted) |-> sorted[i].payload]),
                   timestamp |-> sorted[1].timestamp,
                   frame_index |-> sorted[1].frame_index,
                   is_keyframe |-> is_keyframe(sorted[1])]

(***************************************************************************)
(* The network classifier (common/network_utils/monitoring.py)             *)
(* rtt is in milliseconds, packet_loss in thousandths, bandwidth in bit/s. *)
(***************************************************************************)
NETWORK_TYPE_EXCELLENT == 0

NETWORK_TYPE_GOOD == 1

NETWORK_TYPE_FAIR == 2

NETWORK_TYPE_POOR == 3

NETWORK_TYPE_VERY_POOR == 4

TYPE_SWITCH_THRESHOLD == 3

NETWORK_THRESHOLDS(network_type) ==
    CASE network_type = NETWORK_TYPE_EXCELLENT ->
            [rtt |-> 50, packet_loss |-> 10, bandwidth |-> 10000000]
      [] network_type = NETWORK_TYPE_GOOD ->
            [rtt |-> 100, packet_loss |-> 20, bandwidth |-> 5000000]
      [] network_type = NETWORK_TYPE_FAIR ->
            [rtt |-> 200, packet_loss |-> 50, bandwidth |-> 2000000]
      [] network_type = NETWORK_TYPE_POOR ->
            [rtt |-> 300, packet_loss |-> 100, bandwidth |-> 1000000]

MeetsThresholds(stats, network_type) ==
    /\ stats.rtt <= NETWORK_THRESHOLDS(network_type).rtt
    /\ stats.packet_loss <= NETWORK_THRESHOLDS(network_type).packet_loss
    /\ stats.bandwidth >= NETWORK_THRESHOLDS(network_type).bandwidth

\* NetworkClassifier._classify: the best class whose thresholds all hold.
classify(stats) ==
    LET met == {t \in NETWORK_TYPE_EXCELLENT..(NETWORK_TYPE_VERY_POOR - 1) :
                    MeetsThresholds(stats, t)}
    IN  IF met = {} THEN NETWORK_TYPE_VERY_POOR
        ELSE CHOOSE t \in met : \A u \in met : t <= u

\* NetworkClassifier.update: the new [current_type, type_stability].
classifier_update(current_type, type_stability, detected_type) ==
    IF detected_type = current_type
    THEN [current_type |-> current_type,
          type_stability |-> Min(type_stability + 1, TYPE_SWITCH_THRESHOLD)]
    ELSE IF type_stability - 1 <= 0
         THEN [current_type |-> detected_type, type_stability |-> 0]
         ELSE [current_type |-> current_type, type_stability |-> type_stability - 1]

(***************************************************************************)
(* The adaptive encoder controller (server/encoder/adaptive_encoder.py)    *)
(* A bitrate is a fraction [n, d] of bit/s in lowest terms with d a power  *)
(* of two: the controller multiplies by 1.5 and 0.5, which a Python float  *)
(* does exactly.  packet_loss is in thousandths, rtt in milliseconds.      *)
(***************************************************************************)
RECURSIVE Rat(_, _)
Rat(n, d) == IF d > 1 /\ n % 2 = 0 THEN Rat(n \div 2, d \div 2) ELSE [n |-> n, d |-> d]

RatLe(a, b) == a.n * b.d <= b.n * a.d

RatLt(a, b) == a.n * b.d < b.n * a.d

RatMin(a, b) == IF RatLe(a, b) THEN a ELSE b

RatMax(a, b) == IF RatLe(b, a) THEN a ELSE b

\* int(x) of a quotient a / b with b > 0: truncation towards zero.
TruncDiv(a, b) == IF a >= 0 THEN a \div b ELSE -((-a) \div b)

\* int(bandwidth * (1.0 - packet_loss) * 0.8), for a bandwidth of whole
\* kbit/s (the product is taken after the division by 1000 to stay within
\* the integers of the checker).
TargetBitrate(feedback) ==
    TruncDiv((feedback.bandwidth \div 1000) * (1000 - feedback.packet_loss) * 8, 10)

\* The limit doubled: max_increase = bitrate * 2.
LimitBitrate_double(bitrate, target_bitrate) ==
    RatMin(Rat(2 * bitrate.n, bitrate.d),
           RatMax(Rat(bitrate.n, 2 * bitrate.d), Rat(target_bitrate, 1)))

\* min(max_increase, max(min_decrease, target_bitrate)) with
\* max_increase = bitrate * 1.5 and min_decrease = bitrate * 0.5.
LimitBitrate(bitrate, target_bitrate) ==
    RatMin(Rat(3 * bitrate.n, 2 * bitrate.d),
           RatMax(Rat(bitrate.n, 2 * bitrate.d), Rat(target_bitrate, 1)))

\* int(x * 0.75), int(x * 0.5), int(x * 0.35): the float products truncate
\* to these quotients for every x below 2720.
Scale(x, percent) == (x * percent) \div 100

\* The new_params of _adapt_to_network, by the tier of (rtt, packet_loss).
NewParams(width, height, fps, feedback, bitrate) ==
    IF feedback.rtt < 100 /\ feedback.packet_loss < 20
    THEN [width |-> width, height |-> height, fps |-> fps, bitrate |-> bitrate, base_qp |-> 23]
    ELSE IF feedback.rtt < 200 /\ feedback.packet_loss < 50
    THEN [width |-> Scale(width, 75), height |-> Scale(height, 75), fps |-> Min(fps, 30),
          bitrate |-> bitrate, base_qp |-> 26]
    ELSE IF feedback.rtt < 300 /\ feedback.packet_loss < 100
    THEN [width |-> Scale(width, 50), height |-> Scale(height, 50), fps |-> Min(fps, 20),
          bitrate |-> bitrate, base_qp |-> 29]
    ELSE [width |-> Scale(width, 35), height |-> Scale(height, 35), fps |-> Min(fps, 10),
          bitrate |-> bitrate, base_qp |-> 32]

(***************************************************************************)
(* The network monitor (common/network_utils/monitoring.py)                *)
(* Times are in whole milliseconds.  A mean is kept as the window it is    *)
(* the mean of; a fraction is [n, d] in lowest terms with d > 0.  The      *)
(* history list, the predictor and the classifier of the monitor are       *)
(* written by _update_stats and read by nothing in the transport: they are *)
(* not part of the monitor's record here.                                  *)
(***************************************************************************)
RECURSIVE GCD(_, _)
GCD(a, b) == IF b = 0 THEN a ELSE GCD(b, a % b)

FracNorm(n, d, g) == [n |-> n \div g, d |-> d \div g]

Frac(n, d) == FracNorm(n, d, GCD(IF n < 0 THEN -n ELSE n, d))

FracAdd(a, b) == Frac(a.n * b.d + b.n * a.d, a.d * b.d)

FracMul(a, b) == Frac(a.n * b.n, a.d * b.d)

FracLe(a, b) == a.n * b.d <= b.n * a.d

FracMin(a, b) == IF FracLe(a, b) THEN a ELSE b

FracMax(a, b) == IF FracLe(b, a) THEN a ELSE b

\* int(x) for a fraction x >= 0.
FracFloor(a) == a.n \div a.d

\* The sum of s[lo..hi] (the range is halved rather than walked, to keep the
\* evaluation shallow).
RECURSIVE SumRange(_, _, _)
SumRange(s, lo, hi) ==
    IF lo > hi THEN 0
    ELSE IF lo = hi THEN s[lo]
    ELSE SumRange(s, lo, (lo + hi) \div 2) + SumRange(s, (lo + hi) \div 2 + 1, hi)

SumSeq(s) == SumRange(s, 1, Len(s))

RECURSIVE SumFracRange(_, _, _)
SumFracRange(s, lo, hi) ==
    IF lo > hi THEN Frac(0, 1)
    ELSE IF lo = hi THEN s[lo]
    ELSE FracAdd(SumFracRange(s, lo, (lo + hi) \div 2),
                 SumFracRange(s, (lo + hi) \div 2 + 1, hi))

SumFracs(s) == SumFracRange(s, 1, Len(s))

\* np.mean of a window of whole numbers, of fractions; 0 for the statistic
\* that was never computed.
MeanInts(w) == IF w = <<>> THEN Frac(0, 1) ELSE Frac(SumSeq(w), Len(w))

MeanFracs(w) == IF w = <<>> THEN Frac(0, 1) ELSE FracMul(SumFracs(w), Frac(1, Len(w)))

WINDOW_SIZE == 100

\* collections.deque(maxlen=window_size).append
WindowAppend(w, x) ==
    IF Len(w) >= WINDOW_SIZE THEN Append(Tail(w), x) ELSE Append(w, x)

\* NetworkMonitor.__init__ at time t
NetworkMonitor(t) ==
    [packet_tracking |-> <<>>, packet_sent_count |-> 0, packet_received_count |-> 0,
     rtt_window |-> <<>>, loss_window |-> <<>>, bandwidth_window |-> <<>>,
     bytes_received |-> 0, last_bytes_time |-> t]

\* NetworkMonitor.packet_sent at time t
packet_sent(m, packet, t) ==
    [m EXCEPT
        !.packet_tracking =
            [s \in (DOMAIN @) \cup {packet.seq_num} |->
                IF s = packet.seq_num
                THEN [send_time |-> t, size |-> Len(serialize(packet))]
                ELSE @[s]],
        !.packet_sent_count = @ + 1]

\* NetworkMonitor._update_stats at time t: the loss sample and, once a
\* second, the bandwidth sample.
update_stats(m, t) ==
    [m EXCEPT
        !.loss_window =
            IF m.packet_sent_count > 0
            THEN WindowAppend(@, Frac(m.packet_sent_count - m.packet_received_count,
                                      m.packet_sent_count))
            ELSE @,
        !.bandwidth_window =
            IF t - m.last_bytes_time >= 1000
            THEN WindowAppend(@, (m.bytes_received * 8 * 1000) \div (t - m.last_bytes_time))
            ELSE @,
        !.bytes_received = IF t - m.last_bytes_time >= 1000 THEN 0 ELSE @,
        !.last_bytes_time = IF t - m.last_bytes_time >= 1000 THEN t ELSE @]

\* packet_received counting every call, tracked or not.
packet_received_uncounted(m, packet, t) ==
    update_stats(
        [m EXCEPT
            !.packet_tracking = [s \in (DOMAIN @) \ {packet.seq_num} |-> @[s]],
            !.packet_received_count = @ + 1],
        t)

\* NetworkMonitor.packet_received at time t: the send record of the same
\* seq_num, whatever packet it was made for, gives the RTT sample.
packet_received(m, packet, t) ==
    IF packet.seq_num \in DOMAIN m.packet_tracking
    THEN update_stats(
            [m EXCEPT
                !.packet_tracking = [s \in (DOMAIN @) \ {packet.seq_num} |-> @[s]],
                !.rtt_window = WindowAppend(@, t - m.packet_tracking[packet.seq_num].send_time),
                !.bytes_received = @ + m.packet_tracking[packet.seq_num].size,
                !.packet_received_count = @ + 1],
            t)
    ELSE update_stats(m, t)

\* NetworkMonitor.get_current_stats: rtt (ms), packet_loss (0..1) and
\* bandwidth (bit/s) as the means _update_stats left.
get_current_stats(m) ==
    [rtt |-> MeanInts(m.rtt_window), packet_loss |-> MeanFracs(m.loss_window),
     bandwidth |-> MeanInts(m.bandwidth_window)]

(***************************************************************************)
(* The server's pure parts (server/network/transport_server.py)            *)
(***************************************************************************)
BASE_PAYLOAD_SIZE == 1200

MIN_PAYLOAD_SIZE == 500

MAX_PAYLOAD_SIZE == 1400

\* loss_factor = 1.0 - min(0.5, packet_loss * 5)
LossFactor(network_stats) ==
    FracAdd(Frac(1, 1),
            FracMul(Frac(-1, 1),
                    FracMin(Frac(1, 2), FracMul(network_stats.packet_loss, Frac(5, 1)))))

\* rtt_factor = max(0.7, 1.0 - (rtt - 200) / 1000) above 200 ms, else 1.0
RttFactor(network_stats) ==
    IF FracLe(network_stats.rtt, Frac(200, 1)) THEN Frac(1, 1)
    ELSE FracMax(Frac(7, 10),
                 FracAdd(Frac(6, 5), FracMul(Frac(-1, 1000), network_stats.rtt)))

\* TransportServer._calculate_optimal_payload_size, in exact arithmetic.
calculate_optimal_payload_size(network_stats) ==
    Max(MIN_PAYLOAD_SIZE,
        Min(MAX_PAYLOAD_SIZE,
            FracFloor(FracMul(Frac(BASE_PAYLOAD_SIZE, 1),
                              FracMul(LossFactor(network_stats), RttFactor(network_stats))))))

FEC_BLOCK_SIZE == 8

\* self.fec_overhead, in hundredths
FEC_OVERHEAD == 20

\* The count rounded up instead.
fec_count_ceil(fec_block_size, fec_overhead) ==
    Max(1, (fec_block_size * fec_overhead + 99) \div 100)

\* max(1, int(self.fec_block_size * self.fec_overhead)), the overhead in
\* hundredths.  (For block sizes up to 64 and overheads of 0.05 to 0.50 the
\* float product truncates to the same number as the exact product.)
fec_count(fec_block_size, fec_overhead) ==
    Max(1, (fec_block_size * fec_overhead) \div 100)

FEC_COUNT == fec_count(FEC_BLOCK_SIZE, FEC_OVERHEAD)

SEND_QUEUE_SIZE == 1000

RECEIVE_QUEUE_SIZE == 100

\* queue.put(item, block=False) with the exception swallowed: a full queue
\* stays as it is.
QueuePut(q, item, maxsize) == IF Len(q) >= maxsize THEN q ELSE Append(q, item)

RECURSIVE QueuePutAll(_, _, _)
QueuePutAll(q, items, maxsize) ==
    IF items = <<>> THEN q
    ELSE QueuePutAll(QueuePut(q, Head(items), maxsize), Tail(items), maxsize)

\* The FEC packets of a block numbered by the frame of its first packet.
BlockFECOf_frame_index(fec_block_size, count, block, next_seq_num, t) ==
    [i \in 1..count |->
        FECPacket(next_seq_num + i - 1, block[1].frame_index, t * 1000, block, FALSE, <<>>)]

\* The FEC packets of one block: fec_count packets with consecutive seq_nums.
BlockFECOf(fec_block_size, count, block, next_seq_num, t) ==
    [i \in 1..count |->
        FECPacket(next_seq_num + i - 1, block[1].seq_num \div fec_block_size, t * 1000,
                  block, FALSE, <<>>)]

BlockFEC(block, next_seq_num, t) ==
    BlockFECOf(FEC_BLOCK_SIZE, FEC_COUNT, block, next_seq_num, t)

\* TransportServer._generate_fec_packets on the buffer already extended,
\* for a server whose attributes are fec_block_size and fec_overhead:
\* [fec_buffer, next_seq_num, packets], packets the FEC packets queued.
RECURSIVE generate_fec_packets_of(_, _, _, _, _, _)
generate_fec_packets_of(fec_block_size, fec_overhead, fec_buffer, next_seq_num, t, out) ==
    IF Len(fec_buffer) < fec_block_size
    THEN [fec_buffer |-> fec_buffer, next_seq_num |-> next_seq_num, packets |-> out]
    ELSE generate_fec_packets_of(fec_block_size, fec_overhead,
            SubSeq(fec_buffer, fec_block_size + 1, Len(fec_buffer)),
            next_seq_num + fec_count(fec_block_size, fec_overhead), t,
            out \o BlockFECOf(fec_block_size, fec_count(fec_block_size, fec_overhead),
                              SubSeq(fec_buffer, 1, fec_block_size), next_seq_num, t))

\* The same with the attributes __init__ sets.
generate_fec_packets(fec_buffer, next_seq_num, t, out) ==
    generate_fec_packets_of(FEC_BLOCK_SIZE, FEC_OVERHEAD, fec_buffer, next_seq_num, t, out)

\* The body of a heartbeat: the monitor's statistics as the whole numbers
\* the JSON values of this model are (rtt in ms, packet_loss in
\* thousandths, bandwidth in bit/s).
StatsBody(stats) ==
    <<JPair("rtt", JInt(FracFloor(stats.rtt))),
      JPair("packet_loss", JInt(FracFloor(FracMul(stats.packet_loss, Frac(1000, 1))))),
      JPair("bandwidth", JInt(FracFloor(stats.bandwidth)))>>

(***************************************************************************)
(* The server (server/network/transport_server.py)                         *)
(* A datagram is [src, dst, data].  A handler is an operator from the      *)
(* server's record to [s, out]: the record it leaves and the datagrams it  *)
(* gave to sendto.                                                         *)
(***************************************************************************)
SERVER_ADDR == [host |-> "server", port |-> 8000]

CLIENT_ADDR == [host |-> "client", port |-> 50000]

\* The address of a second client.
PEER_ADDR == [host |-> "peer", port |-> 50001]

Datagram(src, dst, data) == [src |-> src, dst |-> dst, data |-> data]

RemoveAt(q, i) == SubSeq(q, 1, i - 1) \o SubSeq(q, i + 1, Len(q))

\* dict[k] = v
DictSet(d, k, v) ==
    IF DictHas(d, k) THEN [i \in 1..Len(d) |-> IF d[i].k = k THEN JPair(k, v) ELSE d[i]]
    ELSE Append(d, JPair(k, v))

\* dict.update(e)
RECURSIVE DictUpdate(_, _)
DictUpdate(d, e) ==
    IF e = <<>> THEN d ELSE DictUpdate(DictSet(d, Head(e).k, Head(e).v), Tail(e))

\* TransportServer.__init__ at time t; rx_data is the datagram the receive
\* loop read last (its local data).
TransportServer(t) ==
    [is_running |-> FALSE, clients |-> <<>>, send_queue |-> <<>>, receive_queue |-> <<>>,
     next_seq_num |-> 0, fec_buffer |-> <<>>, network_monitor |-> NetworkMonitor(t),
     stats |-> [sent_packets |-> 0, received_packets |-> 0], rx_data |-> <<>>]

\* self.clients[addr] = {...} for a new address, last_seen (and the stats)
\* refreshed for a known one.
RegisterClient(clients, addr, t, stats, known_stats) ==
    [a \in (DOMAIN clients) \cup {addr} |->
        IF a # addr THEN clients[a]
        ELSE IF addr \in DOMAIN clients THEN [last_seen |-> t, stats |-> known_stats]
        ELSE [last_seen |-> t, stats |-> stats]]

ClientStatsOf(clients, addr) == IF addr \in DOMAIN clients THEN clients[addr].stats ELSE <<>>

\* TransportServer._handle_nack: the missing_seqs are read and nothing is
\* retransmitted (the retransmission is a TODO of the source).
handle_nack(s, packet, addr) == s

\* TransportServer._handle_client_stats up to the call of
\* network_monitor.update_from_client.
handle_client_stats(s, packet, addr) ==
    IF packet.ctrl_data = <<>> \/ addr \notin DOMAIN s.clients THEN s
    ELSE [s EXCEPT !.clients[addr].stats = DictUpdate(@, packet.ctrl_data)]

\* NetworkMonitor has no update_from_client: the call raises AttributeError,
\* which ends this iteration of the receive loop.
handle_client_stats_raises(packet) ==
    /\ packet.ctrl_type = CTRL_TYPE_STATS
    /\ packet.ctrl_data # <<>>
    /\ DictHas(packet.ctrl_data, "rtt")
    /\ DictHas(packet.ctrl_data, "packet_loss")

ControlDispatch(s, packet, addr) ==
    IF packet.ctrl_type = CTRL_TYPE_NACK THEN handle_nack(s, packet, addr)
    ELSE IF packet.ctrl_type = CTRL_TYPE_STATS THEN handle_client_stats(s, packet, addr)
    ELSE s

\* TransportServer._handle_control_packet
handle_control_packet(s, packet, addr, t) ==
    IF handle_client_stats_raises(packet)
    THEN [s |-> handle_client_stats(s, packet, addr), out |-> <<>>, raised |-> TRUE]
    ELSE [s |-> [ControlDispatch(s, packet, addr) EXCEPT
                    !.clients = RegisterClient(@, addr, t, <<>>, ClientStatsOf(@, addr))],
          out |-> <<>>, raised |-> FALSE]

\* TransportServer._handle_heartbeat_packet, first statement: the client
\* is registered or refreshed.
heartbeat_register(s, packet, addr, t) ==
    [s EXCEPT !.clients = RegisterClient(@, addr, t, packet.client_stats,
                              DictUpdate(ClientStatsOf(@, addr), packet.client_stats))]

\* _handle_heartbeat_packet, second statement: the response is built with
\* the value self.next_seq_num has now.
heartbeat_response(s, t) ==
    HeartbeatPacket(s.next_seq_num, t * 1000, StatsBody(get_current_stats(s.network_monitor)))

\* _handle_heartbeat_packet, the rest: self.next_seq_num += 1 and sendto.
heartbeat_reply(s, response, addr) ==
    [s |-> [s EXCEPT !.next_seq_num = @ + 1],
     out |-> <<Datagram(SERVER_ADDR, addr, serialize(response))>>,
     raised |-> FALSE]

\* TransportServer._handle_heartbeat_packet run without interruption
handle_heartbeat_packet(s, packet, addr, t) ==
    heartbeat_reply(heartbeat_register(s, packet, addr, t), heartbeat_response(s, t), addr)

\* The end of one iteration of _receive_loop: receive_queue.put and
\* network_monitor.packet_received, unless a handler raised.
ReceiveLoopTail(r, packet, addr, t) ==
    IF r.raised THEN r
    ELSE [r EXCEPT
            !.s.receive_queue = QueuePut(@, <<packet, addr>>, RECEIVE_QUEUE_SIZE),
            !.s.network_monitor = packet_received(@, packet, t)]

ReceiveLoopHandlers(s, packet, addr, t) ==
    IF packet.packet_type = PACKET_TYPE_CONTROL THEN handle_control_packet(s, packet, addr, t)
    ELSE IF packet.packet_type = PACKET_TYPE_HEARTBEAT
         THEN handle_heartbeat_packet(s, packet, addr, t)
    ELSE [s |-> s, out |-> <<>>, raised |-> FALSE]

\* One iteration of TransportServer._receive_loop on the datagram (data, addr).
ReceiveLoopPacket(s, packet, addr, t) ==
    IF packet = NoneVal THEN [s |-> s, out |-> <<>>, raised |-> FALSE]
    ELSE ReceiveLoopTail(
            ReceiveLoopHandlers([s EXCEPT !.stats.received_packets = @ + 1], packet, addr, t),
            packet, addr, t)

server_receive(s, data, addr, t) ==
    ReceiveLoopPacket([s EXCEPT !.rx_data = data], Packet_deserialize(data), addr, t)

\* TransportServer.send_video_frame, the part after the fragmenter.
QueueFragments(s, fragments, fec) ==
    [s EXCEPT
        !.next_seq_num = fec.next_seq_num,
        !.fec_buffer = fec.fec_buffer,
        !.send_queue = QueuePutAll(QueuePutAll(@, fragments, SEND_QUEUE_SIZE),
                                   fec.packets, SEND_QUEUE_SIZE)]

SendFragments(s, fragments, t) ==
    IF fragments = <<>> THEN s
    ELSE QueueFragments(s, fragments,
            generate_fec_packets(s.fec_buffer \o fragments,
                                 s.next_seq_num + Len(fragments), t, <<>>))

\* send_video_frame without the test of self.clients.
send_video_frame_unguarded(s, frame, t) ==
    SendFragments(s,
        fragment_video_frame(frame.data, frame.frame_index, t * 1000, frame.is_keyframe,
            calculate_optimal_payload_size(get_current_stats(s.network_monitor)),
            s.next_seq_num),
        t)

\* What TransportServer.send_video_frame returns: False without a client.
send_video_frame_returns(s) == DOMAIN s.clients # {}

\* TransportServer.send_video_frame at time t.
send_video_frame(s, frame, t) ==
    IF DOMAIN s.clients = {} THEN s
    ELSE SendFragments(s,
            fragment_video_frame(frame.data, frame.frame_index, t * 1000, frame.is_keyframe,
                calculate_optimal_payload_size(get_current_stats(s.network_monitor)),
                s.next_seq_num),
            t)

\* The addresses of self.clients in the order the send loop visits them.
RECURSIVE SetToSeq(_)
SetToSeq(S) ==
    IF S = {} THEN <<>>
    ELSE LET x == CHOOSE y \in S : TRUE IN <<x>> \o SetToSeq(S \ {x})

Broadcast(addrs, data) == [i \in 1..Len(addrs) |-> Datagram(SERVER_ADDR, addrs[i], data)]

\* A for loop over addrs that the first failing sendto would end.
SentTo_abort(addrs, failing) ==
    SubSeq(addrs, 1, Cardinality({i \in 1..Len(addrs) : \A j \in 1..i : addrs[j] \notin failing}))

\* The for loop of _send_loop over list(self.clients.items()): the
\* addresses whose sendto went through, when sendto raises for the
\* addresses of failing; the except clause lets the loop go on.
SentTo(addrs, failing) == SelectSeq(addrs, LAMBDA a : a \notin failing)

\* One iteration of TransportServer._send_loop that found a packet, with
\* sendto raising for the addresses of failing: self.clients.pop each.
server_send_to(s, t, failing) ==
    [s |-> [s EXCEPT !.send_queue = Tail(@),
                     !.stats.sent_packets = @ + 1,
                     !.network_monitor = packet_sent(@, Head(s.send_queue), t),
                     !.clients = [a \in (DOMAIN @) \ failing |-> @[a]]],
     out |-> Broadcast(SentTo(SetToSeq(DOMAIN s.clients), failing),
                       serialize(Head(s.send_queue)))]

\* One iteration of TransportServer._send_loop with no sendto raising.
server_send(s, t) == server_send_to(s, t, {})

(***************************************************************************)
(* The client (client/network/transport_client.py)                         *)
(***************************************************************************)
CLIENT_SEND_QUEUE_SIZE == 100

CLIENT_RECEIVE_QUEUE_SIZE == 1000

FRAME_QUEUE_SIZE == 30

\* self.nack_interval and self.heartbeat_interval, in ms.
NACK_INTERVAL == 100

HEARTBEAT_INTERVAL == 1000

\* the most seq numbers one NACK names
NACK_MAX_SEQS == 100

\* _cleanup_old_fragments(30)
KEEP_COUNT == 30

\* The hash table behind the Python set missing_seq_nums, as CPython keeps
\* it: size slots, fill of them taken by a key or by the dummy a removed key
\* leaves, and the slots that hold a dummy.  An int hashes to itself and its
\* slot is hash % size; list(set) reads the slots in order.  (Two keys on
\* one slot would need the probe sequence, which is left out: the seqs of
\* one gap are consecutive and fewer than size.)
PySet_MINSIZE == 8

PySetTable == [size |-> PySet_MINSIZE, fill |-> 0, dummy |-> {}]

\* set_table_resize: the smallest power of two above minused
RECURSIVE PySetNewSize(_, _)
PySetNewSize(size, minused) == IF size > minused THEN size ELSE PySetNewSize(2 * size, minused)

\* The keys of new, added in increasing order, that take a fresh slot up to
\* x: a key whose slot holds a dummy takes the dummy over and leaves fill
\* as it is.
PySetFresh(table, new, x) == {y \in new : y <= x /\ (y % table.size) \notin table.dummy}

\* The keys of new whose set.add finds fill * 5 >= mask * 3: the first of
\* them has the table rebuilt.
PySetFull(table, new) ==
    {x \in new : /\ (x % table.size) \notin table.dummy
                 /\ (table.fill + Cardinality(PySetFresh(table, new, x))) * 5
                        >= (table.size - 1) * 3}

\* The table rebuilt by the set.add that made used keys: used * 4 slots at
\* least, no dummy.
PySetRebuilt(used) ==
    [size |-> PySetNewSize(PySet_MINSIZE, used * 4), fill |-> used, dummy |-> {}]

\* for seq in ...: set.add(seq), for the keys of new (none of them in the
\* set) in increasing order, used keys before them.
RECURSIVE PySetAddAll(_, _, _)
PySetAddFrom(table, used, new, first_full) ==
    PySetAddAll(PySetRebuilt(used + Cardinality({y \in new : y <= first_full})),
                used + Cardinality({y \in new : y <= first_full}),
                {y \in new : y > first_full})

PySetAddAll(table, used, new) ==
    IF PySetFull(table, new) = {}
    THEN [table EXCEPT
            !.fill = @ + Cardinality({y \in new : (y % table.size) \notin table.dummy}),
            !.dummy = @ \ {y % table.size : y \in new}]
    ELSE PySetAddFrom(table, used, new,
            CHOOSE x \in PySetFull(table, new) : \A y \in PySetFull(table, new) : x <= y)

\* set.remove(x) for every x of gone: each leaves a dummy on its slot
PySetRemoveAll(table, gone) == [table EXCEPT !.dummy = @ \cup {x % table.size : x \in gone}]

\* TransportClient.__init__ at time t.  phase is where start() is: "new"
\* before it, "connecting" inside connect() waiting in recvfrom, "running"
\* with the three loops started, "failed" when connect() returned False.
TransportClient(t) ==
    [server_addr |-> SERVER_ADDR, phase |-> "new", is_running |-> FALSE,
     is_connected |-> FALSE, send_queue |-> <<>>, receive_queue |-> <<>>,
     frame_queue |-> <<>>, network_monitor |-> NetworkMonitor(t), next_seq_num |-> 0,
     frame_fragments |-> <<>>, received_frames |-> 0, received_seq_nums |-> {},
     expected_seq_num |-> 0, missing_seq_nums |-> {}, missing_table |-> PySetTable,
     last_nack_time |-> 0, last_heartbeat_time |-> 0, recv_deadline |-> 0,
     stats |-> [sent_packets |-> 0, received_packets |-> 0, complete_frames |-> 0,
                incomplete_frames |-> 0, dropped_frames |-> 0, network |-> <<>>]]

\* The seqs from expected_seq_num up to the one that arrived that were never
\* received.
NewlyMissing(c, seq_num) ==
    {q \in c.expected_seq_num..(seq_num - 1) : q \notin c.received_seq_nums \cup {seq_num}}

\* The seq tracking of _receive_loop: the seqs from expected_seq_num up to
\* the one that arrived that were never received go to missing_seq_nums.
TrackSeq(c, seq_num) ==
    [c EXCEPT
        !.received_seq_nums = @ \cup {seq_num},
        !.missing_seq_nums = @ \cup NewlyMissing(c, seq_num),
        !.missing_table =
            PySetAddAll(@, Cardinality(c.missing_seq_nums),
                        NewlyMissing(c, seq_num) \ c.missing_seq_nums),
        !.expected_seq_num = Max(@, seq_num + 1)]

\* One iteration of TransportClient._receive_loop on the packet decoded.
ReceivePacket(c, packet, t) ==
    IF packet = NoneVal THEN c
    ELSE [TrackSeq(c, packet.seq_num) EXCEPT
            !.stats.received_packets = @ + 1,
            !.receive_queue = QueuePut(@, packet, CLIENT_RECEIVE_QUEUE_SIZE),
            !.network_monitor = packet_received(@, packet, t)]

\* the source check of _receive_loop: only the port is compared
client_receive(c, dgram, t) ==
    IF dgram.src.port # c.server_addr.port THEN c
    ELSE ReceivePacket(c, Packet_deserialize(dgram.data), t)

\* self.frame_fragments[frame_index].append(packet)
AddFragment(frame_fragments, packet) ==
    [f \in (DOMAIN frame_fragments) \cup {packet.frame_index} |->
        IF f # packet.frame_index THEN frame_fragments[f]
        ELSE IF f \in DOMAIN frame_fragments THEN Append(frame_fragments[f], packet)
        ELSE <<packet>>]

\* self.frame_fragments.pop(frame_index, None)
PopFrame(frame_fragments, frame_index) ==
    [f \in (DOMAIN frame_fragments) \ {frame_index} |-> frame_fragments[f]]

\* TransportClient._cleanup_old_fragments: the keep_count largest frame
\* indices stay.
cleanup_old_fragments(frame_fragments, keep_count) ==
    IF Cardinality(DOMAIN frame_fragments) <= keep_count THEN frame_fragments
    ELSE [f \in {g \in DOMAIN frame_fragments :
                    Cardinality({h \in DOMAIN frame_fragments : h > g}) < keep_count} |->
            frame_fragments[f]]

\* _handle_video_packet after the reassembly of a frame was tried.
FrameDone(c, frame_index, frame_data) ==
    [c EXCEPT
        !.frame_queue = IF frame_data = NoneVal THEN @
                        ELSE QueuePut(@, frame_data, FRAME_QUEUE_SIZE),
        !.stats.complete_frames =
            IF frame_data # NoneVal /\ Len(c.frame_queue) < FRAME_QUEUE_SIZE THEN @ + 1 ELSE @,
        !.received_frames =
            IF frame_data # NoneVal /\ Len(c.frame_queue) < FRAME_QUEUE_SIZE THEN @ + 1 ELSE @,
        !.stats.dropped_frames =
            IF frame_data # NoneVal /\ Len(c.frame_queue) >= FRAME_QUEUE_SIZE THEN @ + 1 ELSE @,
        !.stats.incomplete_frames = IF frame_data = NoneVal THEN @ + 1 ELSE @,
        !.frame_fragments = cleanup_old_fragments(PopFrame(@, frame_index), KEEP_COUNT)]

\* TransportClient._handle_video_packet: the frame is reassembled, and
\* dropped from the buffer, when the fragment with FRAGMENT_END arrives.
FragmentAdded(c, packet) ==
    IF is_last_fragment(packet)
    THEN FrameDone(c, packet.frame_index,
                   reassemble_video_frame(c.frame_fragments[packet.frame_index]))
    ELSE c

handle_video_packet(c, packet) ==
    FragmentAdded([c EXCEPT !.frame_fragments = AddFragment(@, packet)], packet)

\* TransportClient._handle_fec_packet: nothing is recovered (the recovery
\* is a TODO of the source).
handle_fec_packet(c, packet) == c

\* TransportClient._handle_heartbeat_packet
handle_heartbeat_reply(c, packet) ==
    IF packet.client_stats = <<>> THEN c
    ELSE [c EXCEPT !.stats.network = DictUpdate(@, packet.client_stats)]

\* One iteration of TransportClient._process_loop that found a packet.
ProcessPacket(c, packet) ==
    IF packet.packet_type = PACKET_TYPE_VIDEO THEN handle_video_packet(c, packet)
    ELSE IF packet.packet_type = PACKET_TYPE_FEC THEN handle_fec_packet(c, packet)
    ELSE IF packet.packet_type = PACKET_TYPE_HEARTBEAT THEN handle_heartbeat_reply(c, packet)
    ELSE c

client_process(c) == ProcessPacket([c EXCEPT !.receive_queue = Tail(@)], Head(c.receive_queue))

\* The place of x when the slots of a table of size slots are read in order.
SlotRank(S, size, x) ==
    1 + Cardinality({y \in S : \/ y % size < x % size
                               \/ (y % size = x % size /\ y < x)})

SlotRanks(S, size) == [x \in S |-> SlotRank(S, size, x)]

ByRank(S, rank, n) == [i \in 1..n |-> CHOOSE x \in S : rank[x] = i]

\* list(self.missing_seq_nums)[:n]: the first n keys in the order of their
\* slots, which is the increasing order only while no key reaches size.
FirstN(S, size, n) == ByRank(S, SlotRanks(S, size), Min(n, Cardinality(S)))

\* TransportClient._send_nack naming missing_seqs: the seqs leave the
\* missing set when the send queue took the NACK.
QueueNack(c, missing_seqs, t) ==
    [c EXCEPT
        !.next_seq_num = @ + 1,
        !.send_queue =
            QueuePut(@, ControlPacket(c.next_seq_num, CTRL_TYPE_NACK,
                                      <<JPair("missing_seqs", JList(missing_seqs))>>, t * 1000),
                     CLIENT_SEND_QUEUE_SIZE),
        !.missing_seq_nums =
            IF Len(c.send_queue) < CLIENT_SEND_QUEUE_SIZE
            THEN @ \ {missing_seqs[i] : i \in 1..Len(missing_seqs)}
            ELSE @,
        !.missing_table =
            IF Len(c.send_queue) < CLIENT_SEND_QUEUE_SIZE
            THEN PySetRemoveAll(@, {missing_seqs[i] : i \in 1..Len(missing_seqs)})
            ELSE @]

\* _send_nack naming every missing seq.
send_nack_unlimited(c, t) ==
    IF c.missing_seq_nums = {} THEN c
    ELSE QueueNack(c, FirstN(c.missing_seq_nums, c.missing_table.size,
                             Cardinality(c.missing_seq_nums)), t)

\* TransportClient._send_nack at time t.
send_nack(c, t) ==
    IF c.missing_seq_nums = {} THEN c
    ELSE QueueNack(c, FirstN(c.missing_seq_nums, c.missing_table.size, NACK_MAX_SEQS), t)

\* TransportClient._send_heartbeat at time t
send_heartbeat(c, t) ==
    [c EXCEPT
        !.next_seq_num = @ + 1,
        !.send_queue =
            QueuePut(@,
                HeartbeatPacket(c.next_seq_num, t * 1000,
                    <<JPair("rtt", JInt(FracFloor(get_current_stats(c.network_monitor).rtt))),
                      JPair("packet_loss",
                            JInt(FracFloor(FracMul(
                                get_current_stats(c.network_monitor).packet_loss,
                                Frac(1000, 1))))),
                      JPair("received_frames", JInt(c.received_frames)),
                      JPair("missing_packets", JInt(Cardinality(c.missing_seq_nums)))>>),
                CLIENT_SEND_QUEUE_SIZE)]

\* _send_loop, first part: the packet at the head of the send queue, if
\* any, goes to the server.
SendQueued(c, t) ==
    IF c.send_queue = <<>> THEN [c |-> c, out |-> <<>>]
    ELSE [c |-> [c EXCEPT !.send_queue = Tail(@),
                          !.stats.sent_packets = @ + 1,
                          !.network_monitor = packet_sent(@, Head(c.send_queue), t)],
          out |-> <<Datagram(CLIENT_ADDR, c.server_addr, serialize(Head(c.send_queue)))>>]

\* _send_loop, second part: the NACK that is due.
NackDue(c, t) ==
    IF c.missing_seq_nums # {} /\ t - c.last_nack_time >= NACK_INTERVAL
    THEN [send_nack(c, t) EXCEPT !.last_nack_time = t]
    ELSE c

\* _send_loop, third part: the heartbeat that is due.
HeartbeatDue(c, t) ==
    IF t - c.last_heartbeat_time >= HEARTBEAT_INTERVAL
    THEN [send_heartbeat(c, t) EXCEPT !.last_heartbeat_time = t]
    ELSE c

SendLoopTimers(r, t) == [r EXCEPT !.c = HeartbeatDue(NackDue(@, t), t)]

\* One iteration of TransportClient._send_loop at time t.
client_send(c, t) == SendLoopTimers(SendQueued(c, t), t)

\* self.socket.settimeout(5.0) in connect(), in ms
CONNECT_TIMEOUT == 5000

\* TransportClient.connect up to recvfrom: the first heartbeat goes out and
\* recvfrom is given 5 s.
connect_send(c, t) ==
    [c |-> [c EXCEPT !.next_seq_num = @ + 1, !.phase = "connecting",
                     !.recv_deadline = t + CONNECT_TIMEOUT],
     out |-> <<Datagram(CLIENT_ADDR, c.server_addr,
                        serialize(HeartbeatPacket(c.next_seq_num, t * 1000, <<>>)))>>]

\* connect() taking any packet at all for the reply.
connect_reply_any(c, packet) ==
    IF packet # NoneVal
    THEN [c EXCEPT !.is_connected = TRUE, !.is_running = TRUE, !.phase = "running"]
    ELSE [c EXCEPT !.phase = "failed"]

\* TransportClient.connect from recvfrom on, and the rest of start(): any
\* datagram that decodes to a heartbeat connects, whoever sent it.
connect_reply(c, packet) ==
    IF packet # NoneVal /\ packet.packet_type = PACKET_TYPE_HEARTBEAT
    THEN [c EXCEPT !.is_connected = TRUE, !.is_running = TRUE, !.phase = "running"]
    ELSE [c EXCEPT !.phase = "failed"]

(***************************************************************************)
(* State                                                                   *)
(***************************************************************************)
VARIABLES
    \* fragment_video_frame / reassemble_video_frame called back to back
    frag_pc, frag_in, frag_pkts, frag_out,
    \* Packet.serialize / Packet.deserialize called back to back
    codec_pc, codec_in, codec_wire, codec_out,
    \* AdaptiveEncoder: self.width, self.height, self.fps, self.target_bitrate,
    \* self.current_params, self.network_feedback, self.need_reinit, and the
    \* number of update_network_feedback calls so far
    enc_width, enc_height, enc_fps, enc_target_bitrate, enc_current_params,
    enc_network_feedback, enc_need_reinit, enc_calls,
    \* AdaptiveEncoder._encode_loop: its local frame_index, the packets it
    \* put on the output queue, and whether the encoder was reinitialised
    \* since the last of them
    enc_loop,
    \* NetworkClassifier: self.current_type, self.type_stability, and the
    \* classes _classify gave the last TYPE_SWITCH_THRESHOLD samples
    cls_current_type, cls_type_stability, cls_detected,
    \* _calculate_optimal_payload_size called on its own: the network_stats
    \* given and the size returned
    pay_pc, pay_stats, pay_size,
    \* the transport: the TransportServer and the TransportClient objects,
    \* the datagrams in flight each way, the clock (ms), the kind of link,
    \* the encoded frames the server's main loop still has to send, and a
    \* history of what went on the wire (read by the properties only); peer
    \* is a second client, of which the model keeps the heartbeats it sent
    server, client, wire, now, link, app_frames, hist, peer,
    \* the server's receive thread and main thread when their handlers are
    \* taken statement by statement: where each is, with its local variables
    threads,
    \* _generate_fec_packets called on its own, on a server whose FEC
    \* attributes are set to other values than the defaults
    fec_gen,
    \* get_qp_delta_map called on its own
    roi_qp,
    \* a ROIDetector of server/roi_detector.py, detect_roi called again and
    \* again
    roi_det,
    \* a NetworkMonitor on its own, packet_sent and packet_received called
    \* in any order
    mon

frag_vars == <<frag_pc, frag_in, frag_pkts, frag_out>>

codec_vars == <<codec_pc, codec_in, codec_wire, codec_out>>

enc_vars ==
    <<enc_width, enc_height, enc_fps, enc_target_bitrate, enc_current_params,
      enc_network_feedback, enc_need_reinit, enc_calls, enc_loop>>

cls_vars == <<cls_current_type, cls_type_stability, cls_detected>>

pay_vars == <<pay_pc, pay_stats, pay_size>>

calc_vars == <<fec_gen, roi_qp, roi_det, mon>>

stream_vars == <<server, client, wire, now, link, app_frames, hist, peer, threads>>

vars == <<frag_vars, codec_vars, enc_vars, cls_vars, pay_vars, calc_vars, stream_vars>>

not_frag == <<codec_vars, enc_vars, cls_vars, pay_vars, calc_vars, stream_vars>>

not_codec == <<frag_vars, enc_vars, cls_vars, pay_vars, calc_vars, stream_vars>>

not_enc == <<frag_vars, codec_vars, cls_vars, pay_vars, calc_vars, stream_vars>>

not_cls == <<frag_vars, codec_vars, enc_vars, pay_vars, calc_vars, stream_vars>>

not_stream == <<frag_vars, codec_vars, enc_vars, cls_vars, pay_vars, calc_vars>>

not_pay == <<frag_vars, codec_vars, enc_vars, cls_vars, calc_vars, stream_vars>>

not_calc == <<frag_vars, codec_vars, enc_vars, cls_vars, pay_vars, stream_vars>>

(***************************************************************************)
(* Bounds and inputs                                                       *)
(***************************************************************************)
\* The largest number of fragments of a frame given to the fragmenter.
MaxFragments == 3

PayloadSizes == {MIN_PAYLOAD_SIZE, BASE_PAYLOAD_SIZE, MAX_PAYLOAD_SIZE}

\* A frame of len bytes; the bytes differ from one position to the next and
\* from one fragment to the next (7 and 256 are coprime; no payload size is
\* a multiple of 256).
FrameData(len, seed) == [i \in 1..len |-> (seed + 7 * i) % 256]

\* Frame sizes around every fragment boundary: n * size - 1, n * size and
\* n * size + 1 for n = 0..MaxFragments, up to MaxFragments fragments.
FrameLens(size) ==
    {l \in UNION {{n * size - 1, n * size, n * size + 1} : n \in 0..MaxFragments} :
        l >= 0 /\ l <= MaxFragments * size}

FragInputs ==
    UNION {[data : {FrameData(l, sd) : l \in FrameLens(size), sd \in {0, 3}},
            frame_index : {0, 70000}, timestamp : {1500250}, is_keyframe : BOOLEAN,
            max_payload_size : {size}, seq_start : {0, 41}] : size \in PayloadSizes}

(***************************************************************************)
(* The fragmenter and the reassembler, one call after the other            *)
(***************************************************************************)
FragIdle ==
    /\ frag_pc = "idle"
    /\ frag_in = NoneVal
    /\ frag_pkts = <<>>
    /\ frag_out = NoneVal

FragInit ==
    /\ frag_pc = "input"
    /\ frag_in \in FragInputs
    /\ frag_pkts = <<>>
    /\ frag_out = NoneVal

Fragment ==
    /\ frag_pc = "input"
    /\ frag_pkts' = fragment_video_frame(frag_in.data, frag_in.frame_index, frag_in.timestamp,
                                         frag_in.is_keyframe, frag_in.max_payload_size,
                                         frag_in.seq_start)
    /\ frag_pc' = "fragmented"
    /\ UNCHANGED <<frag_in, frag_out, not_frag>>

Reassemble ==
    /\ frag_pc = "fragmented"
    /\ frag_out' = reassemble_video_frame(frag_pkts)
    /\ frag_pc' = "reassembled"
    /\ UNCHANGED <<frag_in, frag_pkts, not_frag>>

(***************************************************************************)
(* The codec, one call after the other                                     *)
(***************************************************************************)
CodecPayloads == {<<>>, <<7>>, <<1, 2, 255>>}

CodecSeqs == {0, 70000}

\* 1.500250 s and 2.000000 s.
CodecTimes == {1500250, 2000000}

CodecVideo ==
    {VideoPacket(s, t, f, pl, x[1], x[2], x[3]) :
        s \in CodecSeqs, t \in CodecTimes, f \in {0, 1, 5, 13}, pl \in CodecPayloads,
        x \in {<<0, 0, 1>>, <<3, 1, 2>>, <<70000, 300, 301>>}}

CodecDicts ==
    {<<>>,
     <<JPair("missing_seqs", JList(<<5>>))>>,
     <<JPair("missing_seqs", JList(<<3, 4, 70000>>))>>,
     <<JPair("rtt", JInt(12)), JPair("packet_loss", JInt(0)),
       JPair("received_frames", JInt(3)), JPair("missing_packets", JInt(1))>>}

CodecControl ==
    {ControlPacket(s, c, d, t) :
        s \in CodecSeqs, t \in CodecTimes, d \in CodecDicts,
        c \in {CTRL_TYPE_ACK, CTRL_TYPE_NACK, CTRL_TYPE_STATS, CTRL_TYPE_CONFIG}}

CodecHeartbeat ==
    {HeartbeatPacket(s, t, d) : s \in CodecSeqs, t \in CodecTimes, d \in CodecDicts}

CodecSources ==
    {<<VideoPacket(8, 1500250, 0, <<1, 2, 255>>, 0, 0, 1)>>,
     <<VideoPacket(8, 1500250, 4, <<1, 2, 255>>, 1, 0, 2),
       VideoPacket(9, 1500250, 12, <<9>>, 1, 1, 2)>>}

CodecFEC ==
    {FECPacket(s, b, t, src, FALSE, <<>>) :
        s \in CodecSeqs, t \in CodecTimes, b \in {0, 1}, src \in CodecSources}

CodecInputs == CodecVideo \cup CodecControl \cup CodecHeartbeat \cup CodecFEC

CodecIdle ==
    /\ codec_pc = "idle"
    /\ codec_in = NoneVal
    /\ codec_wire = <<>>
    /\ codec_out = NoneVal

CodecInit ==
    /\ codec_pc = "input"
    /\ codec_in \in CodecInputs
    /\ codec_wire = <<>>
    /\ codec_out = NoneVal

Serialize ==
    /\ codec_pc = "input"
    /\ codec_wire' = serialize(codec_in)
    /\ codec_pc' = "encoded"
    /\ UNCHANGED <<codec_in, codec_out, not_codec>>

Deserialize ==
    /\ codec_pc = "encoded"
    /\ codec_out' = Packet_deserialize(codec_wire)
    /\ codec_pc' = "decoded"
    /\ UNCHANGED <<codec_in, codec_wire, not_codec>>

\* Values of the packet_kind byte that name no kind of packet.
UNKNOWN_KINDS == {9, 255}

\* The datagram is damaged on its way: the packet_kind byte names no kind,
\* or the last byte of the JSON body of a control or heartbeat packet is
\* 0xFF, which no UTF-8 text holds.
Corrupt ==
    /\ codec_pc = "encoded"
    /\ \/ \E kind \in UNKNOWN_KINDS : codec_wire' = [codec_wire EXCEPT ![1] = kind]
       \/ /\ codec_wire[1] \in {PACKET_TYPE_CONTROL, PACKET_TYPE_HEARTBEAT}
          /\ Len(codec_wire) > HEADER_SIZE
          /\ codec_wire' = [codec_wire EXCEPT ![Len(codec_wire)] = 255]
    /\ codec_pc' = "damaged"
    /\ UNCHANGED <<codec_in, codec_out, not_codec>>

\* Packet.deserialize on the damaged datagram
DeserializeDamaged ==
    /\ codec_pc = "damaged"
    /\ codec_out' = Packet_deserialize(codec_wire)
    /\ codec_pc' = "decoded damaged"
    /\ UNCHANGED <<codec_in, codec_wire, not_codec>>

(***************************************************************************)
(* The encoder controller: update_network_feedback called again and again  *)
(***************************************************************************)
\* The largest number of update_network_feedback calls.
MaxEncCalls == 3

\* server/main.py builds the encoder from the BALANCED profile.
ENC_WIDTH == 960

ENC_HEIGHT == 540

ENC_FPS == 30

ENC_BITRATE == 2500000

\* Feedback of every tier, with a loss above 1 and a dead link among them.
Feedbacks ==
    [rtt : {50, 150, 250, 400}, packet_loss : {0, 30, 70, 200, 1500},
     bandwidth : {0, 1000000, 20000000}]

\* AdaptiveEncoder.__init__
EncInit ==
    /\ enc_width = ENC_WIDTH
    /\ enc_height = ENC_HEIGHT
    /\ enc_fps = ENC_FPS
    /\ enc_target_bitrate = Rat(ENC_BITRATE, 1)
    /\ enc_current_params =
            [width |-> ENC_WIDTH, height |-> ENC_HEIGHT, fps |-> ENC_FPS,
             bitrate |-> Rat(ENC_BITRATE, 1), base_qp |-> 23]
    /\ enc_network_feedback = [rtt |-> 100, packet_loss |-> 10, bandwidth |-> 5000000]
    /\ enc_need_reinit = FALSE
    /\ enc_calls = 0
    /\ enc_loop = [frame_index |-> 0, output_queue |-> <<>>, reinitialised |-> FALSE]

\* need_reinit comparing the fps alone.
NeedReinit_fps_only(current_params, new_params) ==
    current_params.fps # new_params.fps

\* _adapt_to_network: need_reinit = (width, height or fps differs).
NeedReinit(current_params, new_params) ==
    \/ current_params.width # new_params.width
    \/ current_params.height # new_params.height
    \/ current_params.fps # new_params.fps

\* AdaptiveEncoder.update_network_feedback, with _adapt_to_network.
UpdateNetworkFeedback ==
    /\ enc_calls < MaxEncCalls
    /\ \E feedback \in Feedbacks :
        LET target_bitrate == LimitBitrate(enc_current_params.bitrate, TargetBitrate(feedback))
            new_params == NewParams(enc_width, enc_height, enc_fps, feedback, target_bitrate)
            need_reinit == NeedReinit(enc_current_params, new_params)
        IN  /\ enc_network_feedback' = feedback
            /\ enc_current_params' = new_params
            /\ enc_target_bitrate' = new_params.bitrate
            /\ enc_width' = IF need_reinit THEN new_params.width ELSE enc_width
            /\ enc_height' = IF need_reinit THEN new_params.height ELSE enc_height
            /\ enc_fps' = IF need_reinit THEN new_params.fps ELSE enc_fps
            /\ enc_need_reinit' = (need_reinit \/ enc_need_reinit)
    /\ enc_calls' = enc_calls + 1
    /\ UNCHANGED <<enc_loop, not_enc>>

\* The encoder's GOP: frame k is a keyframe when k % GOP = 0.
GOP == 30

\* The largest number of frames given to the encoder.
MaxEncFrames == 2

\* The head of _encode_loop: the encoder is released and initialised again
\* when need_reinit is set.
ReinitIfNeeded ==
    /\ enc_need_reinit' = FALSE
    /\ UNCHANGED <<enc_width, enc_height, enc_fps, enc_target_bitrate, enc_current_params,
                   enc_network_feedback, enc_calls>>

\* AdaptiveEncoder._encode_loop, one iteration that found no frame on the
\* input queue after it reinitialised the encoder.
EncodeReinit ==
    /\ enc_need_reinit
    /\ ReinitIfNeeded
    /\ enc_loop' = [enc_loop EXCEPT !.reinitialised = TRUE]
    /\ UNCHANGED not_enc

\* AdaptiveEncoder._encode_loop, one iteration that found a frame: the
\* packet it puts on the output queue (with, for the properties, whether it
\* is the first since the encoder was reinitialised).
EncodeFrame ==
    /\ enc_loop.frame_index < MaxEncFrames
    /\ ReinitIfNeeded
    /\ enc_loop' =
            [frame_index |-> enc_loop.frame_index + 1,
             output_queue |->
                Append(enc_loop.output_queue,
                       [frame_index |-> enc_loop.frame_index,
                        is_keyframe |-> enc_loop.frame_index % GOP = 0,
                        width |-> enc_current_params.width,
                        height |-> enc_current_params.height,
                        after_reinit |-> enc_need_reinit \/ enc_loop.reinitialised]),
             reinitialised |-> FALSE]
    /\ UNCHANGED not_enc

(***************************************************************************)
(* The payload size: _calculate_optimal_payload_size called once           *)
(***************************************************************************)
\* Network statistics on and around every bend of the two factors: rtt in
\* ms, packet_loss as a fraction.
PayStats ==
    [rtt : {Frac(n, 1) : n \in {0, 20, 100, 200, 201, 300, 500, 1000}},
     packet_loss : {Frac(n, 100) : n \in {0, 1, 5, 10, 20, 50, 100}},
     bandwidth : {Frac(0, 1)}]

PayInit ==
    /\ pay_pc = "in"
    /\ pay_stats \in PayStats
    /\ pay_size = 0

\* No call of _calculate_optimal_payload_size on its own.
PayIdle ==
    /\ pay_pc = "idle"
    /\ pay_stats = [rtt |-> Frac(0, 1), packet_loss |-> Frac(0, 1), bandwidth |-> Frac(0, 1)]
    /\ pay_size = 0

\* No call of _generate_fec_packets nor of get_qp_delta_map on its own.
CalcIdle ==
    /\ fec_gen = [pc |-> "idle"]
    /\ roi_qp = [pc |-> "idle"]
    /\ roi_det = [pc |-> "idle"]
    /\ mon = [pc |-> "idle"]

\* The block sizes and the packets of one call at most, and the calls.
MaxFecBlock == 8

MaxFecBatch == 8

MaxFecCalls == 2

\* A server with fec_block_size and fec_overhead set, the overhead to
\* 0.05 .. 0.50 in hundredths; next_seq_num starts at 1 as after the
\* first heartbeat reply.  video keeps the seq_nums of the video packets in
\* the order send_video_frame queued them.
FecGenInit ==
    /\ fec_gen \in
            [pc : {"run"}, fec_block_size : 1..MaxFecBlock, fec_overhead : 5..50,
             fec_buffer : {<<>>}, next_seq_num : {1}, queued : {<<>>},
             sources : {0}, calls : {0}, video : {<<>>}]
    /\ roi_qp = [pc |-> "idle"]
    /\ roi_det = [pc |-> "idle"]
    /\ mon = [pc |-> "idle"]

\* n source packets with consecutive seq_nums, as send_video_frame hands
\* them to _generate_fec_packets.
SourcePackets(n, next_seq_num) ==
    [i \in 1..n |-> VideoPacket(next_seq_num + i - 1, 0, 0, <<0>>, 0, i - 1, n)]

GenerateFecApply(n, r) ==
    fec_gen' = [fec_gen EXCEPT !.fec_buffer = r.fec_buffer,
                               !.next_seq_num = r.next_seq_num,
                               !.queued = @ \o r.packets,
                               !.sources = @ + n,
                               !.calls = @ + 1,
                               !.video = @ \o [i \in 1..n |-> fec_gen.next_seq_num + i - 1]]

\* TransportServer._generate_fec_packets(packets), after send_video_frame
\* took the seq_nums of the packets
GenerateFecPackets ==
    /\ fec_gen.pc = "run"
    /\ fec_gen.calls < MaxFecCalls
    /\ \E n \in 1..MaxFecBatch :
            GenerateFecApply(n,
                generate_fec_packets_of(fec_gen.fec_block_size, fec_gen.fec_overhead,
                    fec_gen.fec_buffer \o SourcePackets(n, fec_gen.next_seq_num),
                    fec_gen.next_seq_num + n, 0, <<>>))
    /\ UNCHANGED <<roi_qp, roi_det, mon, not_calc>>

\* The ROI weights of this model are the fractions n / ROI_DEN, which
\* float32 holds exactly, as it holds 1 - w and (1 - w) * max_delta for the
\* values of max_delta here: the numerator stands for the weight.
ROI_DEN == 4

\* The grid is ROI_GRID x ROI_GRID cells (grid_size), max_delta to MaxDelta.
ROI_GRID == 2

MaxDelta == 10

\* ROIDetector.get_qp_delta_map(base_qp, max_delta): int() cuts the
\* fraction of (1.0 - w) * max_delta off.
get_qp_delta_map(roi_weights, base_qp, max_delta) ==
    [cell \in DOMAIN roi_weights |->
        ((ROI_DEN - roi_weights[cell]) * max_delta) \div ROI_DEN]

\* A detector with any weights in [0, 1], before the call.
RoiInit ==
    /\ roi_qp \in
            [pc : {"in"},
             roi_weights : [(0..(ROI_GRID - 1)) \X (0..(ROI_GRID - 1)) -> 0..ROI_DEN],
             max_delta : 1..MaxDelta,
             qp_delta_map : {<<>>}]
    /\ fec_gen = [pc |-> "idle"]
    /\ roi_det = [pc |-> "idle"]
    /\ mon = [pc |-> "idle"]

\* adaptive_encoder's call of get_qp_delta_map
GetQpDeltaMap ==
    /\ roi_qp.pc = "in"
    /\ roi_qp' = [roi_qp EXCEPT
                    !.pc = "out",
                    !.qp_delta_map = get_qp_delta_map(roi_qp.roi_weights, 0, roi_qp.max_delta)]
    /\ UNCHANGED <<fec_gen, roi_det, mon, not_calc>>

(***************************************************************************)
(* The ROI detector of server/roi_detector.py.  A ROI is [x, y, width,     *)
(* height]; OpenCV's answer, the bounding rectangle of the largest contour *)
(* of the difference image, is an input: any rectangle inside the frame,   *)
(* or none.                                                                *)
(***************************************************************************)
\* The frame of this model.
ROI_FRAME_WIDTH == 3

ROI_FRAME_HEIGHT == 2

Roi(x, y, width, height) == [x |-> x, y |-> y, width |-> width, height |-> height]

\* ROIDetector._get_mouse_based_roi
get_mouse_based_roi(d, mouse_pos) ==
    Roi(Max(0, Min(mouse_pos[1] - d.roi_size \div 2, d.frame_width - d.roi_size)),
        Max(0, Min(mouse_pos[2] - d.roi_size \div 2, d.frame_height - d.roi_size)),
        d.roi_size, d.roi_size)

\* _detect_content_change from the bounding rectangle on: the minimum size,
\* then x and y cut to the frame.
ContentGrown(d, x, y, w, h) ==
    Roi(Min(x, d.frame_width - w), Min(y, d.frame_height - h), w, h)

ContentRoi(d, rect) ==
    ContentGrown(d,
        IF rect.width < d.roi_size THEN Max(0, rect.x - (d.roi_size - rect.width) \div 2)
        ELSE rect.x,
        IF rect.height < d.roi_size THEN Max(0, rect.y - (d.roi_size - rect.height) \div 2)
        ELSE rect.y,
        Max(rect.width, d.roi_size), Max(rect.height, d.roi_size))

\* ROIDetector._detect_content_change: rect is cv2.boundingRect of the
\* largest contour, NoneVal when there is no contour.
detect_content_change(d, rect) == IF rect = NoneVal THEN NoneVal ELSE ContentRoi(d, rect)

\* ROIDetector._merge_rois: the first ROI wins.
merge_rois(roi1, roi2) == roi1

\* _clip_roi with min and max exchanged in the width and the height.
clip_roi_swapped(d, roi) ==
    Roi(Max(0, Min(roi.x, d.frame_width - roi.width)),
        Max(0, Min(roi.y, d.frame_height - roi.height)),
        Max(roi.width, d.frame_width), Max(roi.height, d.frame_height))

\* ROIDetector._clip_roi
clip_roi(d, roi) ==
    Roi(Max(0, Min(roi.x, d.frame_width - roi.width)),
        Max(0, Min(roi.y, d.frame_height - roi.height)),
        Min(roi.width, d.frame_width), Min(roi.height, d.frame_height))

\* detect_roi, the fusion of the two ROIs.
FusedRoi(d, mouse_pos, mouse_roi, content_roi) ==
    IF content_roi = NoneVal THEN mouse_roi
    ELSE IF d.fusion_mode = "mouse_first" /\ mouse_pos # NoneVal
         THEN merge_rois(mouse_roi, content_roi)
    ELSE IF d.fusion_mode = "content_first" THEN merge_rois(content_roi, mouse_roi)
    ELSE mouse_roi

\* ROIDetector.detect_roi on a frame of the configured size (frame_ok) or
\* on None or a frame of another size: [d, roi], the detector after the
\* call and the ROI returned.
DetectDone(d, roi) ==
    [d |-> [d EXCEPT !.prev_gray = TRUE, !.current_roi = roi], roi |-> roi]

detect_roi(d, frame_ok, mouse_pos, rect) ==
    IF ~frame_ok THEN [d |-> d, roi |-> d.current_roi]
    ELSE DetectDone(d,
            clip_roi(d,
                FusedRoi(d, mouse_pos,
                    IF mouse_pos # NoneVal THEN get_mouse_based_roi(d, mouse_pos)
                    ELSE d.current_roi,
                    IF d.prev_gray THEN detect_content_change(d, rect) ELSE NoneVal)))

\* The mouse positions: inside the frame, on its edges and outside.
MousePositions ==
    ((-1)..(ROI_FRAME_WIDTH + 1)) \X ((-1)..(ROI_FRAME_HEIGHT + 1))

\* The rectangles cv2.boundingRect can return: not empty, inside the frame.
BoundingRects ==
    {r \in [x : 0..(ROI_FRAME_WIDTH - 1), y : 0..(ROI_FRAME_HEIGHT - 1),
            width : 1..ROI_FRAME_WIDTH, height : 1..ROI_FRAME_HEIGHT] :
        r.x + r.width <= ROI_FRAME_WIDTH /\ r.y + r.height <= ROI_FRAME_HEIGHT}

\* ROIDetector.__init__ with the arguments it accepts.
RoiDetInit ==
    /\ \E roi_size \in 1..Min(ROI_FRAME_WIDTH, ROI_FRAME_HEIGHT) :
       \E fusion_mode \in {"mouse_first", "content_first"} :
            roi_det = [pc |-> "run", frame_width |-> ROI_FRAME_WIDTH,
                       frame_height |-> ROI_FRAME_HEIGHT, roi_size |-> roi_size,
                       fusion_mode |-> fusion_mode, prev_gray |-> FALSE,
                       current_roi |-> Roi(0, 0, roi_size, roi_size),
                       returned |-> NoneVal, mouse |-> "none"]
    /\ fec_gen = [pc |-> "idle"]
    /\ roi_qp = [pc |-> "idle"]
    /\ mon = [pc |-> "idle"]

\* Where the mouse is: in the frame or not.
MouseKind(mouse_pos) ==
    IF mouse_pos = NoneVal THEN "none"
    ELSE IF mouse_pos[1] \in 0..(ROI_FRAME_WIDTH - 1) /\ mouse_pos[2] \in 0..(ROI_FRAME_HEIGHT - 1)
         THEN "inside"
    ELSE "outside"

DetectRoiApply(mouse_pos, r) ==
    roi_det' = [r.d EXCEPT !.returned = r.roi, !.mouse = MouseKind(mouse_pos)]

\* One call of detect_roi.
DetectRoi ==
    /\ roi_det.pc = "run"
    /\ \E mouse_pos \in MousePositions \cup {NoneVal} :
            \/ DetectRoiApply(mouse_pos, detect_roi(roi_det, FALSE, mouse_pos, NoneVal))
            \/ \E rect \in BoundingRects \cup {NoneVal} :
                    DetectRoiApply(mouse_pos, detect_roi(roi_det, TRUE, mouse_pos, rect))
    /\ UNCHANGED <<fec_gen, roi_qp, mon, not_calc>>

\* TransportServer._calculate_optimal_payload_size(network_stats)
CalculatePayloadSize ==
    /\ pay_pc = "in"
    /\ pay_size' = calculate_optimal_payload_size(pay_stats)
    /\ pay_pc' = "out"
    /\ UNCHANGED <<pay_stats, not_pay>>

(***************************************************************************)
(* The classifier: update called again and again                           *)
(***************************************************************************)
\* Samples on and beyond every threshold.
ClsStats ==
    [rtt : {50, 100, 200, 300, 301}, packet_loss : {10, 20, 50, 100},
     bandwidth : {10000000, 5000000, 2000000, 1000000}]

\* NetworkClassifier.__init__
ClsInit ==
    /\ cls_current_type = NETWORK_TYPE_GOOD
    /\ cls_type_stability = 0
    /\ cls_detected = <<>>

\* NetworkClassifier.update
ClassifierUpdate ==
    \E stats \in ClsStats :
        LET detected_type == classify(stats)
            new == classifier_update(cls_current_type, cls_type_stability, detected_type)
        IN  /\ cls_current_type' = new.current_type
            /\ cls_type_stability' = new.type_stability
            /\ cls_detected' =
                    IF Len(cls_detected) < TYPE_SWITCH_THRESHOLD
                    THEN Append(cls_detected, detected_type)
                    ELSE Append(Tail(cls_detected), detected_type)
            /\ UNCHANGED not_cls

(***************************************************************************)
(* One server, one client and the UDP link between them                    *)
(***************************************************************************)
\* time.time() when the two endpoints are constructed, in ms.
EPOCH == 1000000

\* The clock advances by TICK_MS at a time, MaxTicks times at most.
TICK_MS == 500

MaxTicks == 2

\* The datagrams that recvfrom can return next: any datagram in flight on
\* a link that reorders, the oldest one on a link that does not.
Deliverable(q) == IF link.reorder THEN 1..Len(q) ELSE IF q = <<>> THEN {} ELSE {1}

\* The RTT sample a monitor took in this step, if it took one, with the time
\* since the last heartbeat its side sent.
RttObserved(side, old_monitor, new_monitor, hb_sent) ==
    IF new_monitor.packet_received_count > old_monitor.packet_received_count /\ hb_sent >= 0
    THEN [side |-> side, rtt |-> new_monitor.rtt_window[Len(new_monitor.rtt_window)],
          since_hb |-> now - hb_sent]
    ELSE hist.rtt_obs

HasHeartbeat(out) ==
    \E i \in 1..Len(out) : Packet_deserialize(out[i].data).packet_type = PACKET_TYPE_HEARTBEAT

DataOf(out) == [i \in 1..Len(out) |-> out[i].data]

\* Nothing went on the wire yet.  popped are the addresses the send loop
\* removed from self.clients, lost and dups the datagrams the link lost and
\* duplicated, returned what the last call of send_video_frame returned
\* (<<>> before the first call).
HistNew ==
    [frames |-> <<>>, srv_tx |-> <<>>, lost |-> 0, hb_sent |-> [server |-> -1, client |-> -1],
     rtt_obs |-> [side |-> "none", rtt |-> 0, since_hb |-> 0], popped |-> {}, dups |-> 0, forged |-> 0,
     returned |-> <<>>]

\* Both threads between two iterations of their loops.
ThreadsIdle ==
    [rx |-> [pc |-> "idle", packet |-> NoneVal, addr |-> NoneVal, response |-> NoneVal],
     main |-> [pc |-> "idle", fragments |-> <<>>]]

StreamNew ==
    /\ server = TransportServer(EPOCH)
    /\ client = TransportClient(EPOCH)
    /\ wire = [to_server |-> <<>>, to_client |-> <<>>, to_peer |-> <<>>]
    /\ now = EPOCH
    /\ hist = HistNew
    /\ peer = [heartbeats |-> 0]
    /\ threads = ThreadsIdle

\* The transport constructed and never started.
StreamIdle ==
    /\ StreamNew
    /\ link = [reorder |-> FALSE, max_lost |-> 0, unreachable |-> {}, max_dup |-> 0, max_forged |-> 0]
    /\ app_frames = <<>>

\* TransportServer.start
ServerStart ==
    /\ ~server.is_running
    /\ server' = [server EXCEPT !.is_running = TRUE]
    /\ UNCHANGED <<client, wire, now, link, app_frames, hist, peer, threads, not_stream>>

\* The server's main loop hands the next encoded frame to send_video_frame.
SendVideoFrame ==
    /\ server.is_running
    /\ app_frames # <<>>
    /\ server' = send_video_frame(server, Head(app_frames), now)
    /\ app_frames' = Tail(app_frames)
    /\ hist' = [hist EXCEPT
                    !.frames = IF DOMAIN server.clients = {} THEN @
                               ELSE Append(@, Head(app_frames)),
                    !.returned = <<send_video_frame_returns(server)>>]
    /\ UNCHANGED <<client, wire, now, link, peer, threads, not_stream>>

\* The datagrams of out for addr.
ToAddr(out, addr) == SelectSeq(out, LAMBDA d : d.dst = addr)

\* The datagrams of out whose sendto went through.
Reachable(out) == SelectSeq(out, LAMBDA d : d.dst \notin link.unreachable)

ServerSendApply(r) ==
    /\ server' = r.s
    /\ wire' = [wire EXCEPT !.to_client = @ \o ToAddr(r.out, CLIENT_ADDR),
                            !.to_peer = @ \o ToAddr(r.out, PEER_ADDR)]
    /\ hist' = [hist EXCEPT !.srv_tx = @ \o DataOf(r.out),
                            !.popped = @ \cup ((DOMAIN server.clients) \ DOMAIN r.s.clients)]

\* TransportServer._send_loop, one iteration
ServerSend ==
    /\ server.is_running
    /\ DOMAIN server.clients # {}
    /\ server.send_queue # <<>>
    /\ ServerSendApply(server_send_to(server, now, link.unreachable))
    /\ UNCHANGED <<client, now, link, app_frames, peer, threads, not_stream>>

ServerReceiveApply(i, r) ==
    /\ server' = r.s
    /\ wire' = [wire EXCEPT !.to_server = RemoveAt(@, i),
                            !.to_client = @ \o ToAddr(Reachable(r.out), CLIENT_ADDR),
                            !.to_peer = @ \o ToAddr(Reachable(r.out), PEER_ADDR)]
    /\ hist' = [hist EXCEPT
                    !.srv_tx = @ \o DataOf(Reachable(r.out)),
                    !.hb_sent.server = IF HasHeartbeat(r.out) THEN now ELSE @,
                    !.rtt_obs = RttObserved("server", server.network_monitor,
                                    r.s.network_monitor,
                                    IF HasHeartbeat(r.out) THEN now ELSE hist.hb_sent.server)]

\* TransportServer._receive_loop, one iteration that read a datagram
ServerReceive ==
    /\ server.is_running
    /\ \E i \in Deliverable(wire.to_server) :
            ServerReceiveApply(i, server_receive(server, wire.to_server[i].data,
                                                 wire.to_server[i].src, now))
    /\ UNCHANGED <<client, now, link, app_frames, peer, threads, not_stream>>

ClientSendApply(r) ==
    /\ client' = r.c
    /\ wire' = [wire EXCEPT !.to_server = @ \o r.out]
    /\ hist' = [hist EXCEPT !.hb_sent.client = IF HasHeartbeat(r.out) THEN now ELSE @]

\* TransportClient.start and connect, up to the wait for the reply
StartConnect ==
    /\ client.phase = "new"
    /\ ClientSendApply(connect_send(client, now))
    /\ UNCHANGED <<server, now, link, app_frames, peer, threads, not_stream>>

\* TransportClient.connect, the datagram recvfrom returned, and the loops
\* that start() starts after it
ConnectReply ==
    /\ client.phase = "connecting"
    /\ \E i \in Deliverable(wire.to_client) :
            /\ client' = connect_reply(client, Packet_deserialize(wire.to_client[i].data))
            /\ wire' = [wire EXCEPT !.to_client = RemoveAt(@, i)]
    /\ UNCHANGED <<server, now, link, app_frames, hist, peer, threads, not_stream>>

ClientReceiveApply(i, c) ==
    /\ client' = c
    /\ wire' = [wire EXCEPT !.to_client = RemoveAt(@, i)]
    /\ hist' = [hist EXCEPT
                    !.rtt_obs = RttObserved("client", client.network_monitor,
                                    c.network_monitor, hist.hb_sent.client)]

\* TransportClient._receive_loop, one iteration that read a datagram
ClientReceive ==
    /\ client.is_running
    /\ \E i \in Deliverable(wire.to_client) :
            ClientReceiveApply(i, client_receive(client, wire.to_client[i], now))
    /\ UNCHANGED <<server, now, link, app_frames, peer, threads, not_stream>>

\* TransportClient._process_loop, one iteration that found a packet
ClientProcess ==
    /\ client.is_running
    /\ client.receive_queue # <<>>
    /\ client' = client_process(client)
    /\ UNCHANGED <<server, wire, now, link, app_frames, hist, peer, threads, not_stream>>

\* TransportClient._send_loop, one iteration
ClientSend ==
    /\ client.is_running
    /\ ClientSendApply(client_send(client, now))
    /\ UNCHANGED <<server, now, link, app_frames, peer, threads, not_stream>>

\* The link loses a datagram in flight.
Drop ==
    /\ hist.lost < link.max_lost
    /\ \/ \E i \in 1..Len(wire.to_client) : wire' = [wire EXCEPT !.to_client = RemoveAt(@, i)]
       \/ \E i \in 1..Len(wire.to_server) : wire' = [wire EXCEPT !.to_server = RemoveAt(@, i)]
    /\ hist' = [hist EXCEPT !.lost = @ + 1]
    /\ UNCHANGED <<server, client, now, link, app_frames, peer, threads, not_stream>>

\* The link delivers a datagram to the client twice: the copy arrives
\* somewhere after the original.
Duplicate ==
    /\ hist.dups < link.max_dup
    /\ \E i \in 1..Len(wire.to_client) : \E j \in i..Len(wire.to_client) :
            wire' = [wire EXCEPT !.to_client =
                        SubSeq(@, 1, j) \o <<wire.to_client[i]>> \o SubSeq(@, j + 1, Len(@))]
    /\ hist' = [hist EXCEPT !.dups = @ + 1]
    /\ UNCHANGED <<server, client, now, link, app_frames, peer, threads, not_stream>>

\* A host that is not the server, sending from the server's port number
\* and from another one.
STRANGER_ADDRS == {[host |-> "stranger", port |-> 8000], [host |-> "stranger", port |-> 8001]}

\* The datagrams the stranger sends: a heartbeat and a video packet.
StrangerData(t) ==
    {serialize(HeartbeatPacket(0, t * 1000, <<>>)),
     serialize(VideoPacket(7, t * 1000, 0, <<0>>, 0, 0, 1))}

\* A datagram of another host reaches the client's socket.
StrangerSend ==
    /\ hist.forged < link.max_forged
    /\ \E src \in STRANGER_ADDRS : \E data \in StrangerData(now) :
            wire' = [wire EXCEPT !.to_client = Append(@, Datagram(src, CLIENT_ADDR, data))]
    /\ hist' = [hist EXCEPT !.forged = @ + 1]
    /\ UNCHANGED <<server, client, now, link, app_frames, peer, threads, not_stream>>

MaxInbound == 2

\* A control packet as it is on the wire when the sender writes the
\* control type in front of the JSON body, the layout from_base reads.
ControlDatagram(seq_num, ctrl_type, ctrl_data, t) ==
    Packet_serialize(Packet(PACKET_TYPE_CONTROL, seq_num, t * 1000, 0,
                            <<ctrl_type>> \o JsonDumps(ctrl_data)))

\* Datagrams of every kind that decode: a heartbeat, a video packet, a FEC
\* packet, a NACK, and STATS bodies with and without rtt and packet_loss.
InboundData(t) ==
    {serialize(HeartbeatPacket(0, t * 1000, <<>>)),
     serialize(VideoPacket(7, t * 1000, 0, <<0>>, 0, 0, 1)),
     serialize(FECPacket(8, 0, t * 1000, <<>>, TRUE, <<0>>)),
     ControlDatagram(1, CTRL_TYPE_NACK, <<JPair("missing_seqs", JList(<<3>>))>>, t),
     ControlDatagram(2, CTRL_TYPE_STATS, <<JPair("rtt", JInt(20))>>, t),
     ControlDatagram(3, CTRL_TYPE_STATS,
                     <<JPair("rtt", JInt(20)), JPair("packet_loss", JInt(0))>>, t)}

\* A host sends the server one datagram that decodes.
InboundSend ==
    /\ peer.heartbeats < MaxInbound
    /\ peer' = [peer EXCEPT !.heartbeats = @ + 1]
    /\ \E src \in {CLIENT_ADDR, PEER_ADDR} : \E data \in InboundData(now) :
            wire' = [wire EXCEPT !.to_server = Append(@, Datagram(src, SERVER_ADDR, data))]
    /\ UNCHANGED <<server, client, now, link, app_frames, hist, threads, not_stream>>

\* TransportServer._receive_loop on a heartbeat, up to the first statement
\* of _handle_heartbeat_packet: the client is registered.
RecvRegister ==
    /\ server.is_running
    /\ threads.rx.pc = "idle"
    /\ \E i \in Deliverable(wire.to_server) :
            /\ wire.to_server[i].data[1] = PACKET_TYPE_HEARTBEAT
            /\ Packet_deserialize(wire.to_server[i].data) # NoneVal
            /\ server' = heartbeat_register(
                            [server EXCEPT !.rx_data = wire.to_server[i].data,
                                           !.stats.received_packets = @ + 1],
                            Packet_deserialize(wire.to_server[i].data),
                            wire.to_server[i].src, now)
            /\ threads' = [threads EXCEPT
                                !.rx = [pc |-> "registered",
                                        packet |-> Packet_deserialize(wire.to_server[i].data),
                                        addr |-> wire.to_server[i].src,
                                        response |-> NoneVal]]
            /\ wire' = [wire EXCEPT !.to_server = RemoveAt(@, i)]
    /\ UNCHANGED <<client, now, link, app_frames, hist, peer, not_stream>>

\* _handle_heartbeat_packet, the response built from self.next_seq_num
RecvResponse ==
    /\ threads.rx.pc = "registered"
    /\ threads' = [threads EXCEPT !.rx.pc = "built",
                                  !.rx.response = heartbeat_response(server, now)]
    /\ UNCHANGED <<server, client, wire, now, link, app_frames, hist, peer, not_stream>>

RecvReplyApply(r) ==
    /\ server' = r.s
    /\ wire' = [wire EXCEPT !.to_client = @ \o ToAddr(Reachable(r.out), CLIENT_ADDR),
                            !.to_peer = @ \o ToAddr(Reachable(r.out), PEER_ADDR)]
    /\ hist' = [hist EXCEPT !.srv_tx = @ \o DataOf(Reachable(r.out)),
                            !.hb_sent.server = now]

\* _handle_heartbeat_packet, the increment and sendto, and the end of the
\* iteration of _receive_loop
RecvReply ==
    /\ threads.rx.pc = "built"
    /\ RecvReplyApply(ReceiveLoopTail(
            heartbeat_reply(server, threads.rx.response, threads.rx.addr),
            threads.rx.packet, threads.rx.addr, now))
    /\ threads' = [threads EXCEPT !.rx = ThreadsIdle.rx]
    /\ UNCHANGED <<client, now, link, app_frames, peer, not_stream>>

\* send_video_frame up to the call of fragment_video_frame, which reads
\* self.next_seq_num; a frame is dropped when no client is registered.
FrameFragment ==
    /\ server.is_running
    /\ threads.main.pc = "idle"
    /\ app_frames # <<>>
    /\ app_frames' = Tail(app_frames)
    /\ threads' =
            IF DOMAIN server.clients = {} THEN threads
            ELSE [threads EXCEPT
                    !.main = [pc |-> "fragmented",
                              fragments |->
                                fragment_video_frame(Head(app_frames).data,
                                    Head(app_frames).frame_index, now * 1000,
                                    Head(app_frames).is_keyframe,
                                    calculate_optimal_payload_size(
                                        get_current_stats(server.network_monitor)),
                                    server.next_seq_num)]]
    /\ hist' = [hist EXCEPT
                    !.frames = IF DOMAIN server.clients = {} THEN @
                               ELSE Append(@, Head(app_frames)),
                    !.returned = IF DOMAIN server.clients = {} THEN <<FALSE>> ELSE @]
    /\ UNCHANGED <<server, client, wire, now, link, peer, not_stream>>

\* send_video_frame from self.next_seq_num += len(fragments) on
FrameQueue ==
    /\ threads.main.pc = "fragmented"
    /\ server' = SendFragments(server, threads.main.fragments, now)
    /\ threads' = [threads EXCEPT !.main = ThreadsIdle.main]
    /\ hist' = [hist EXCEPT !.returned = <<TRUE>>]
    /\ UNCHANGED <<client, wire, now, link, app_frames, peer, not_stream>>

\* TransportClient.connect: recvfrom times out with nothing received.
ConnectTimeout ==
    /\ client.phase = "connecting"
    /\ wire.to_client = <<>>
    /\ now >= client.recv_deadline
    /\ client' = [client EXCEPT !.phase = "failed"]
    /\ UNCHANGED <<server, wire, now, link, app_frames, hist, peer, threads, not_stream>>

\* inactivity_timeout of the specification, in ms: the time after which a
\* silent peer is to be expired.  (No code of the repository reads it.)
INACTIVITY_TIMEOUT == 10000

\* The long pauses at most.
MaxSleeps == 1

\* A long time passes: inactivity_timeout at once.
Sleep ==
    /\ now < EPOCH + MaxSleeps * INACTIVITY_TIMEOUT
    /\ now' = now + INACTIVITY_TIMEOUT
    /\ UNCHANGED <<server, client, wire, link, app_frames, hist, peer, threads, not_stream>>

\* The heartbeats the second client sends at most.
MaxPeerHeartbeats == 1

\* The second client's connect(): its first heartbeat goes to the server.
PeerHeartbeat ==
    /\ peer.heartbeats < MaxPeerHeartbeats
    /\ peer' = [peer EXCEPT !.heartbeats = @ + 1]
    /\ wire' = [wire EXCEPT !.to_server =
                    Append(@, [connect_send(TransportClient(now), now).out[1]
                               EXCEPT !.src = PEER_ADDR])]
    /\ UNCHANGED <<server, client, now, link, app_frames, hist, threads, not_stream>>

\* Time passes.
Tick ==
    /\ now < EPOCH + MaxTicks * TICK_MS
    /\ now' = now + TICK_MS
    /\ UNCHANGED <<server, client, wire, link, app_frames, hist, peer, threads, not_stream>>

(***************************************************************************)
(* A NetworkMonitor called from outside: packet_sent and packet_received   *)
(* in any order, with seq_nums repeated and seq_nums never sent.           *)
(***************************************************************************)
MaxMonCalls == 5

MON_SEQS == 0..1

MON_STEPS == {1, 1000}

MonInit ==
    /\ mon = [pc |-> "run", m |-> NetworkMonitor(EPOCH), t |-> EPOCH, calls |-> 0,
              sent |-> {}, received |-> {}, unsent |-> FALSE, repeated |-> FALSE]
    /\ fec_gen = [pc |-> "idle"]
    /\ roi_qp = [pc |-> "idle"]
    /\ roi_det = [pc |-> "idle"]

\* One call of packet_sent, after dt ms.
MonPacketSent ==
    /\ mon.pc = "run"
    /\ mon.calls < MaxMonCalls
    /\ \E seq_num \in MON_SEQS : \E dt \in MON_STEPS :
            mon' = [mon EXCEPT
                        !.m = packet_sent(@, HeartbeatPacket(seq_num, (mon.t + dt) * 1000, <<>>),
                                          mon.t + dt),
                        !.t = @ + dt, !.calls = @ + 1,
                        !.sent = @ \cup {seq_num}]
    /\ UNCHANGED <<fec_gen, roi_qp, roi_det, not_calc>>

\* One call of packet_received, after dt ms.
MonPacketReceived ==
    /\ mon.pc = "run"
    /\ mon.calls < MaxMonCalls
    /\ \E seq_num \in MON_SEQS : \E dt \in MON_STEPS :
            mon' = [mon EXCEPT
                        !.m = packet_received(@, HeartbeatPacket(seq_num, mon.t * 1000, <<>>),
                                              mon.t + dt),
                        !.t = @ + dt, !.calls = @ + 1,
                        !.received = @ \cup {seq_num},
                        !.unsent = @ \/ seq_num \notin mon.sent,
                        !.repeated = @ \/ seq_num \in mon.received]
    /\ UNCHANGED <<fec_gen, roi_qp, roi_det, not_calc>>

(***************************************************************************)
(* Specifications                                                          *)
(***************************************************************************)
InitFrag == FragInit /\ CodecIdle /\ EncInit /\ ClsInit /\ StreamIdle /\ PayIdle /\ CalcIdle

NextFrag == Fragment \/ Reassemble

SpecFrag == InitFrag /\ [][NextFrag]_vars

InitCodec == CodecInit /\ FragIdle /\ EncInit /\ ClsInit /\ StreamIdle /\ PayIdle /\ CalcIdle

NextCodec == Serialize \/ Deserialize

SpecCodec == InitCodec /\ [][NextCodec]_vars

NextDamaged == Serialize \/ Corrupt \/ DeserializeDamaged

SpecDamaged == InitCodec /\ [][NextDamaged]_vars

InitEnc == EncInit /\ FragIdle /\ CodecIdle /\ ClsInit /\ StreamIdle /\ PayIdle /\ CalcIdle

NextEnc == UpdateNetworkFeedback

SpecEnc == InitEnc /\ [][NextEnc]_vars

InitPay == PayInit /\ FragIdle /\ CodecIdle /\ EncInit /\ ClsInit /\ StreamIdle /\ CalcIdle

NextPay == CalculatePayloadSize

InitFecGen ==
    FecGenInit /\ FragIdle /\ CodecIdle /\ EncInit /\ ClsInit /\ StreamIdle /\ PayIdle

InitRoi ==
    RoiInit /\ FragIdle /\ CodecIdle /\ EncInit /\ ClsInit /\ StreamIdle /\ PayIdle

NextRoi == GetQpDeltaMap

InitRoiDet ==
    RoiDetInit /\ FragIdle /\ CodecIdle /\ EncInit /\ ClsInit /\ StreamIdle /\ PayIdle

NextRoiDet == DetectRoi

InitMon ==
    MonInit /\ FragIdle /\ CodecIdle /\ EncInit /\ ClsInit /\ StreamIdle /\ PayIdle

NextMon == MonPacketSent \/ MonPacketReceived

SpecMon == InitMon /\ [][NextMon]_vars

SpecRoiDet == InitRoiDet /\ [][NextRoiDet]_vars

SpecRoi == InitRoi /\ [][NextRoi]_vars

NextFecGen == GenerateFecPackets

SpecFecGen == InitFecGen /\ [][NextFecGen]_vars

SpecPay == InitPay /\ [][NextPay]_vars

\* The controller with the encode loop running.
NextEncLoop == UpdateNetworkFeedback \/ EncodeReinit \/ EncodeFrame

SpecEncLoop == InitEnc /\ [][NextEncLoop]_vars

InitCls == ClsInit /\ FragIdle /\ CodecIdle /\ EncInit /\ StreamIdle /\ PayIdle /\ CalcIdle

NextCls == ClassifierUpdate

SpecCls == InitCls /\ [][NextCls]_vars

\* The encoded frame number k, of len bytes.
Frame(k, len) == [data |-> FrameData(len, k), frame_index |-> k, is_keyframe |-> k % GOP = 0]

\* One frame of one to five fragments, or two frames of one or two.
ReasmFrames ==
    {<<Frame(0, len)>> : len \in {1, 1201, 2401, 4801}}
        \cup {<<Frame(0, a), Frame(1, b)>> : a, b \in {1, 1201}}

\* A link that reorders and loses nothing; every loop but the client's
\* send loop runs.
InitReasm ==
    /\ StreamNew
    /\ link = [reorder |-> TRUE, max_lost |-> 0, unreachable |-> {}, max_dup |-> 0, max_forged |-> 0]
    /\ app_frames \in ReasmFrames
    /\ FragIdle /\ CodecIdle /\ EncInit /\ ClsInit /\ PayIdle /\ CalcIdle

NextReasm ==
    \/ ServerStart
    \/ StartConnect
    \/ ServerReceive
    \/ ConnectReply
    \/ SendVideoFrame
    \/ ServerSend
    \/ ClientReceive
    \/ ClientProcess

SpecReasm == InitReasm /\ [][NextReasm]_vars

\* Eight frames of one fragment each (one FEC block), or four of two.
FecFrames ==
    {[k \in 1..FEC_BLOCK_SIZE |-> Frame(k - 1, 1)],
     [k \in 1..(FEC_BLOCK_SIZE \div 2) |-> Frame(k - 1, 1201)]}

\* The most datagrams the link loses.
MaxLost == 1

\* A link that keeps the order and loses one datagram at most.
InitFec ==
    /\ StreamNew
    /\ link = [reorder |-> FALSE, max_lost |-> MaxLost, unreachable |-> {}, max_dup |-> 0, max_forged |-> 0]
    /\ app_frames \in FecFrames
    /\ FragIdle /\ CodecIdle /\ EncInit /\ ClsInit /\ PayIdle /\ CalcIdle

NextFec == NextReasm \/ Drop

SpecFec == InitFec /\ [][NextFec]_vars

\* Frame 0 of two fragments, then frame 1 of one fragment or of two.
OrderFrames == {<<Frame(0, 1201), Frame(1, len)>> : len \in {1, 1201}}

\* Two frames on a link that keeps the order and loses one datagram at
\* most.
InitOrder ==
    /\ StreamNew
    /\ link = [reorder |-> FALSE, max_lost |-> MaxLost, unreachable |-> {}, max_dup |-> 0,
               max_forged |-> 0]
    /\ app_frames \in OrderFrames
    /\ FragIdle /\ CodecIdle /\ EncInit /\ ClsInit /\ PayIdle /\ CalcIdle

SpecOrder == InitOrder /\ [][NextFec]_vars

\* No frame, or one frame of one fragment.
SessionFrames == {<<>>, <<Frame(0, 1)>>}

\* A link that keeps the order and loses nothing; all loops run and time
\* passes.
InitSession ==
    /\ StreamNew
    /\ link = [reorder |-> FALSE, max_lost |-> 0, unreachable |-> {}, max_dup |-> 0, max_forged |-> 0]
    /\ app_frames \in SessionFrames
    /\ FragIdle /\ CodecIdle /\ EncInit /\ ClsInit /\ PayIdle /\ CalcIdle

NextSession == NextReasm \/ ClientSend \/ Tick

SpecSession == InitSession /\ [][NextSession]_vars

\* Two frames of one fragment each, or one frame of two fragments.
PeersFrames == {<<Frame(0, 1), Frame(1, 1)>>, <<Frame(0, 1201)>>}

\* Two clients, and sendto raising for the address of one of them; the
\* link keeps the order and loses nothing.
InitPeers ==
    /\ StreamNew
    /\ link \in {[reorder |-> FALSE, max_lost |-> 0, unreachable |-> {a}, max_dup |-> 0, max_forged |-> 0] :
                    a \in {CLIENT_ADDR, PEER_ADDR}}
    /\ app_frames \in PeersFrames
    /\ FragIdle /\ CodecIdle /\ EncInit /\ ClsInit /\ PayIdle /\ CalcIdle

NextPeers == NextReasm \/ PeerHeartbeat

SpecPeers == InitPeers /\ [][NextPeers]_vars

\* A client that sends its first heartbeat and nothing after it (its send
\* loop never gets to run), while the server's main loop still has frames
\* to send and a long time can pass.
InitIdle ==
    /\ StreamNew
    /\ link = [reorder |-> FALSE, max_lost |-> 0, unreachable |-> {}, max_dup |-> 0, max_forged |-> 0]
    /\ app_frames \in PeersFrames
    /\ FragIdle /\ CodecIdle /\ EncInit /\ ClsInit /\ PayIdle /\ CalcIdle

NextIdle == NextReasm \/ Sleep

SpecIdle == InitIdle /\ [][NextIdle]_vars

\* The server's receive thread and main thread taken statement by
\* statement, with the send loop and the client as whole steps; the link
\* keeps the order and loses nothing, and a long time can pass.
InitRace ==
    /\ StreamNew
    /\ link = [reorder |-> FALSE, max_lost |-> 0, unreachable |-> {}, max_dup |-> 0, max_forged |-> 0]
    /\ app_frames \in PeersFrames
    /\ FragIdle /\ CodecIdle /\ EncInit /\ ClsInit /\ PayIdle /\ CalcIdle

NextRace ==
    \/ ServerStart
    \/ StartConnect
    \/ RecvRegister
    \/ RecvResponse
    \/ RecvReply
    \/ FrameFragment
    \/ FrameQueue
    \/ ServerSend
    \/ ConnectReply
    \/ ConnectTimeout
    \/ ClientReceive
    \/ ClientProcess
    \/ Sleep

SpecRace == InitRace /\ [][NextRace]_vars

\* The datagrams the link duplicates at most.
MaxDup == 1

\* A link that keeps the order, loses nothing and delivers one datagram
\* twice at most.
InitDup ==
    /\ StreamNew
    /\ link = [reorder |-> FALSE, max_lost |-> 0, unreachable |-> {}, max_dup |-> MaxDup,
               max_forged |-> 0]
    /\ app_frames \in PeersFrames
    /\ FragIdle /\ CodecIdle /\ EncInit /\ ClsInit /\ PayIdle /\ CalcIdle

NextDup == NextReasm \/ Duplicate

SpecDup == InitDup /\ [][NextDup]_vars

\* The datagrams of another host at most.
MaxForged == 1

\* A link that keeps the order, and another host that sends to the client.
InitStranger ==
    /\ StreamNew
    /\ link = [reorder |-> FALSE, max_lost |-> 0, unreachable |-> {}, max_dup |-> 0,
               max_forged |-> MaxForged]
    /\ app_frames \in SessionFrames
    /\ FragIdle /\ CodecIdle /\ EncInit /\ ClsInit /\ PayIdle /\ CalcIdle

NextStranger == NextReasm \/ StrangerSend

\* A started server and hosts that send it packets of every kind.
InitInbound ==
    /\ StreamNew
    /\ link = [reorder |-> FALSE, max_lost |-> 0, unreachable |-> {}, max_dup |-> 0,
               max_forged |-> 0]
    /\ app_frames = <<>>
    /\ FragIdle /\ CodecIdle /\ EncInit /\ ClsInit /\ PayIdle /\ CalcIdle

NextInbound == ServerStart \/ InboundSend \/ ServerReceive \/ Tick

SpecInbound == InitInbound /\ [][NextInbound]_vars

SpecStranger == InitStranger /\ [][NextStranger]_vars

(***************************************************************************)
(* A session played in lock step: the state [s, c, t, flying] of the server,*)
(* the client, the clock and the datagrams in flight to the client, taken   *)
(* through one schedule of the loops, frame after frame.  It gives the      *)
(* specifications below their first state, a session well under way.        *)
(***************************************************************************)
\* The client's receive loop and process loop take the datagrams of out.
RECURSIVE DeliverAll(_, _, _)
DeliverNext(c, out, t) ==
    DeliverAll(IF c.receive_queue = <<>> THEN c ELSE client_process(c), Tail(out), t)

DeliverAll(c, out, t) ==
    IF out = <<>> THEN c ELSE DeliverNext(client_receive(c, Head(out), t), out, t)

\* What the link does with the datagrams of a round: "deliver" them,
\* "lose" them, or keep them in flight ("fly").
Carry(st, s, out, link_mode) ==
    [st EXCEPT
        !.s = s,
        !.c = IF link_mode = "deliver" THEN DeliverAll(@, out, st.t) ELSE @,
        !.flying = IF link_mode = "fly" THEN @ \o out ELSE @]

\* The server's send loop empties the send queue.
RECURSIVE ServerDrain(_, _)
ServerDrainNext(st, r, link_mode) == ServerDrain(Carry(st, r.s, r.out, link_mode), link_mode)

ServerDrain(st, link_mode) ==
    IF st.s.send_queue = <<>> \/ DOMAIN st.s.clients = {} THEN st
    ELSE ServerDrainNext(st, server_send(st.s, st.t), link_mode)

\* The server's receive loop takes the datagram the client sent, if the
\* link brought it, and the client takes the reply.
ServerTurn(st, out, link_mode) ==
    IF out = <<>> \/ link_mode = "lose" THEN st
    ELSE Carry(st, server_receive(st.s, out[1].data, out[1].src, st.t).s,
               server_receive(st.s, out[1].data, out[1].src, st.t).out, link_mode)

\* One iteration of the client's send loop.
ClientTurnSent(st, r, link_mode) == ServerTurn([st EXCEPT !.c = r.c], r.out, link_mode)

ClientTurn(st, link_mode) == ClientTurnSent(st, client_send(st.c, st.t), link_mode)

\* One round: frame k of one byte goes through send_video_frame, the
\* server's send loop, the link and the client's loops, and the client's
\* send loop runs once.  (As in the specifications, time passes only
\* between the steps that say so: a round takes less than a millisecond.)
PlayFrame(st, frame, link_mode) ==
    ClientTurn(ServerDrain([st EXCEPT !.s = send_video_frame(@, frame, st.t)],
                           link_mode),
               link_mode)

PlayRound(st, k, link_mode) == PlayFrame(st, Frame(k, 1), link_mode)

\* Rounds for the frames from to upto, as long as the server runs (the
\* range is halved rather than walked, to keep the evaluation shallow).
RECURSIVE Play(_, _, _, _)
Play(st, from, upto, link_mode) ==
    IF ~st.s.is_running \/ from > upto THEN st
    ELSE IF from = upto THEN PlayRound(st, from, link_mode)
    ELSE Play(Play(st, from, (from + upto) \div 2, link_mode),
              (from + upto) \div 2 + 1, upto, link_mode)

\* The session established at time t: start(), connect() and the server's
\* reply, which connect() takes.
Established(s, r, t) ==
    [s |-> server_receive(s, r.out[1].data, r.out[1].src, t).s,
     c |-> connect_reply(r.c,
              Packet_deserialize(server_receive(s, r.out[1].data, r.out[1].src, t).out[1].data)),
     t |-> t, flying |-> <<>>]

Establish(t) ==
    Established([TransportServer(t) EXCEPT !.is_running = TRUE],
                connect_send(TransportClient(t), t), t)

\* A session in which delivered frames arrived, the next lost frames were
\* lost with everything else on the link, and one more frame is in flight.
AfterBurst(t, delivered, lost) ==
    Play(Play(Play(Establish(t), 0, delivered - 1, "deliver"),
              delivered, delivered + lost - 1, "lose"),
         delivered + lost, delivered + lost, "fly")

\* The frames that arrived and the frames that were lost before the first
\* state of SpecNack: with the FEC packets among them the lost datagrams are
\* 250 consecutive seqs, 305..554.
NACK_DELIVERED == 270

NACK_LOST == 222

\* A session well under way, a tick after a burst of loss: the client has
\* every seq below 305 (seq 0, which connect() took, was named in a NACK
\* long ago), the datagrams 305..554 were lost and datagram 555 is in
\* flight.  The send loops and receive loops run and time passes.
InitNack ==
    /\ \E st \in {AfterBurst(EPOCH - TICK_MS, NACK_DELIVERED, NACK_LOST)} :
            /\ server = st.s
            /\ client = st.c
            /\ wire = [to_server |-> <<>>, to_client |-> st.flying, to_peer |-> <<>>]
    /\ now = EPOCH
    /\ hist = HistNew
    /\ peer = [heartbeats |-> 0]
    /\ threads = ThreadsIdle
    /\ link = [reorder |-> FALSE, max_lost |-> 0, unreachable |-> {}, max_dup |-> 0, max_forged |-> 0]
    /\ app_frames = <<>>
    /\ FragIdle /\ CodecIdle /\ EncInit /\ ClsInit /\ PayIdle /\ CalcIdle

NextNack == ClientReceive \/ ClientProcess \/ ClientSend \/ ServerReceive \/ Tick

SpecNack == InitNack /\ [][NextNack]_vars

\* A shorter session of the same kind: the frames that arrived and the
\* frames that were lost, more than one NACK can name.
NACK_FEW_DELIVERED == 8

NACK_FEW_LOST == 100

InitNackLimit ==
    /\ \E st \in {AfterBurst(EPOCH - TICK_MS, NACK_FEW_DELIVERED, NACK_FEW_LOST)} :
            /\ server = st.s
            /\ client = st.c
            /\ wire = [to_server |-> <<>>, to_client |-> st.flying, to_peer |-> <<>>]
    /\ now = EPOCH
    /\ hist = HistNew
    /\ peer = [heartbeats |-> 0]
    /\ threads = ThreadsIdle
    /\ link = [reorder |-> FALSE, max_lost |-> 0, unreachable |-> {}, max_dup |-> 0, max_forged |-> 0]
    /\ app_frames = <<>>
    /\ FragIdle /\ CodecIdle /\ EncInit /\ ClsInit /\ PayIdle /\ CalcIdle

SpecNackLimit == InitNackLimit /\ [][NextNack]_vars

\* send_video_frame called for the frames from to upto with the send loop
\* not scheduled in between (the range is halved rather than walked).
RECURSIVE Backlog(_, _, _, _)
Backlog(s, from, upto, t) ==
    IF ~s.is_running \/ from > upto THEN s
    ELSE IF from = upto THEN send_video_frame(s, Frame(from, 1), t)
    ELSE Backlog(Backlog(s, from, (from + upto) \div 2, t), (from + upto) \div 2 + 1, upto, t)

\* The frames sent before the first state of SpecBacklog: frames 1..899 of
\* one byte give more packets, with their FEC packets, than the send queue
\* holds.
BACKLOG_FRAMES == 899

\* The send loop's iterations in SpecBacklog at most.
MaxBacklogSends == 60

\* An established session whose server queued frames faster than its send
\* loop ran: the send queue is full.  The next frame is a keyframe of one
\* fragment or of two; the send loop runs.
InitBacklog ==
    /\ \E st \in {Establish(EPOCH)} :
            /\ server = Backlog(st.s, 1, BACKLOG_FRAMES, EPOCH)
            /\ client = st.c
    /\ wire = [to_server |-> <<>>, to_client |-> <<>>, to_peer |-> <<>>]
    /\ now = EPOCH
    /\ hist = HistNew
    /\ peer = [heartbeats |-> 0]
    /\ threads = ThreadsIdle
    /\ link = [reorder |-> FALSE, max_lost |-> 0, unreachable |-> {}, max_dup |-> 0, max_forged |-> 0]
    /\ app_frames \in {<<Frame(BACKLOG_FRAMES + 1, 1)>>, <<Frame(BACKLOG_FRAMES + 1, 1201)>>}
    /\ FragIdle /\ CodecIdle /\ EncInit /\ ClsInit /\ PayIdle /\ CalcIdle

\* The send loop, for its first iterations.
BacklogSend ==
    /\ Len(hist.srv_tx) < MaxBacklogSends
    /\ ServerSend

NextBacklog == SendVideoFrame \/ BacklogSend

SpecBacklog == InitBacklog /\ [][NextBacklog]_vars

\* The frames lost between the two frames in flight in the first state of
\* SpecWindow: one more than the client keeps.
WINDOW_LOST == 30

\* Frame 0 of two fragments is in flight, the frames 1..WINDOW_LOST were
\* lost on the link, and the next frame, of two fragments, is in flight
\* behind frame 0.
WindowStart(t) ==
    PlayFrame(Play(PlayFrame(Establish(t), Frame(0, 1201), "fly"), 1, WINDOW_LOST, "lose"),
              Frame(WINDOW_LOST + 1, 1201), "fly")

\* An established session after a long burst of loss, on a link that keeps
\* the order and loses one datagram more at most.
InitWindow ==
    /\ \E st \in {WindowStart(EPOCH)} :
            /\ server = st.s
            /\ client = st.c
            /\ wire = [to_server |-> <<>>, to_client |-> st.flying, to_peer |-> <<>>]
            /\ hist = [HistNew EXCEPT !.srv_tx = DataOf(st.flying)]
    /\ now = EPOCH
    /\ peer = [heartbeats |-> 0]
    /\ threads = ThreadsIdle
    /\ link = [reorder |-> FALSE, max_lost |-> MaxLost, unreachable |-> {}, max_dup |-> 0,
               max_forged |-> 0]
    /\ app_frames = <<>>
    /\ FragIdle /\ CodecIdle /\ EncInit /\ ClsInit /\ PayIdle /\ CalcIdle

NextWindow == ClientReceive \/ ClientProcess \/ ClientSend \/ ServerReceive \/ Drop

SpecWindow == InitWindow /\ [][NextWindow]_vars

\* The frames in flight in the first state of SpecRetx.
RETX_FLYING == 3

\* An established session with frames in flight on a link that keeps the
\* order and loses one datagram at most: the receive loops and the client's
\* send loop run and time passes.
InitRetx ==
    /\ \E st \in {Play(Establish(EPOCH), 0, RETX_FLYING - 1, "fly")} :
            /\ server = st.s
            /\ client = st.c
            /\ wire = [to_server |-> <<>>, to_client |-> st.flying, to_peer |-> <<>>]
            /\ hist = [HistNew EXCEPT !.srv_tx = DataOf(st.flying)]
    /\ now = EPOCH
    /\ peer = [heartbeats |-> 0]
    /\ threads = ThreadsIdle
    /\ link = [reorder |-> FALSE, max_lost |-> MaxLost, unreachable |-> {}, max_dup |-> 0, max_forged |-> 0]
    /\ app_frames = <<>>
    /\ FragIdle /\ CodecIdle /\ EncInit /\ ClsInit /\ PayIdle /\ CalcIdle

NextRetx ==
    ClientReceive \/ ClientProcess \/ ClientSend \/ ServerReceive \/ Drop \/ Tick

SpecRetx == InitRetx /\ [][NextRetx]_vars

(***************************************************************************)
(* Claims                                                                  *)
(***************************************************************************)

\* C1 as stated: for every frame byte string F and every max_payload_size
\* in [500, 1400], reassembling the fragments of F gives a frame whose data
\* is F and whose frame_index and keyframe flag are those given.
C1_RoundTripEveryFrame ==
    frag_pc = "reassembled" =>
        /\ frag_out # NoneVal
        /\ frag_out.data = frag_in.data
        /\ frag_out.frame_index = frag_in.frame_index
        /\ frag_out.is_keyframe = frag_in.is_keyframe

\* C1 amended: for every non-empty frame byte string F and every
\* max_payload_size in [500, 1400], reassembling the fragments of F gives a
\* frame whose data is F byte for byte and whose frame_index and keyframe
\* flag are those given to the fragmenter.
C1_RoundTripNonEmpty ==
    (frag_pc = "reassembled" /\ frag_in.data # <<>>) =>
        /\ frag_out # NoneVal
        /\ frag_out.data = frag_in.data
        /\ frag_out.frame_index = frag_in.frame_index
        /\ frag_out.is_keyframe = frag_in.is_keyframe

\* A keyframe of MaxFragments fragments, the last one shorter than the
\* others, has been fragmented and reassembled.
C1_Witness ==
    /\ frag_pc = "reassembled"
    /\ Len(frag_pkts) = MaxFragments
    /\ Len(frag_pkts[MaxFragments].payload) < frag_in.max_payload_size
    /\ frag_in.is_keyframe
    /\ frag_out # NoneVal

SameVariantFields(p, q) ==
    CASE p.packet_type = PACKET_TYPE_VIDEO ->
            /\ q.frame_index = p.frame_index
            /\ q.fragment_index = p.fragment_index
            /\ q.total_fragments = p.total_fragments
            /\ q.payload = p.payload
      [] p.packet_type = PACKET_TYPE_CONTROL ->
            /\ q.ctrl_type = p.ctrl_type
            /\ q.ctrl_data = p.ctrl_data
      [] p.packet_type = PACKET_TYPE_FEC ->
            /\ q.block_index = p.block_index
            /\ q.source_seq_nums = p.source_packets
            /\ q.fec_data = p.fec_data
      [] p.packet_type = PACKET_TYPE_HEARTBEAT ->
            q.client_stats = p.client_stats

\* C2: for every packet p of every variant, Packet.deserialize(p.serialize())
\* is a packet of the same variant with the same seq_num, millisecond
\* timestamp, flags and variant fields.
C2_CodecRoundTrip ==
    codec_pc = "decoded" =>
        /\ codec_out # NoneVal
        /\ codec_out.packet_type = codec_in.packet_type
        /\ codec_out.seq_num = codec_in.seq_num
        /\ codec_out.timestamp \div 1000 = codec_in.timestamp \div 1000
        /\ codec_out.flags = codec_in.flags
        /\ SameVariantFields(codec_in, codec_out)

\* C10: a frame whose size is exactly max_payload_size is fragmented into
\* exactly one VideoPacket, which has FRAGMENT_END set and FRAGMENT clear.
C10_ExactPayloadOneEndFragment ==
    (frag_pc = "fragmented" /\ Len(frag_in.data) = frag_in.max_payload_size) =>
        /\ Len(frag_pkts) = 1
        /\ is_last_fragment(frag_pkts[1])
        /\ ~is_fragment(frag_pkts[1])

Abs(x) == IF x < 0 THEN -x ELSE x

\* C5: for every call of update_network_feedback, in any reachable state
\* and for any feedback values, the new bitrate differs from the bitrate
\* before the call by at most 50% of the bitrate before the call.
C5_BitrateStepAtMostHalf ==
    [][LET old == enc_current_params.bitrate
           new == enc_current_params'.bitrate
       IN  2 * Abs(new.n * old.d - old.n * new.d) <= old.n * new.d]_vars

\* A call has raised the bitrate and held it below the 0.8 of the available
\* bandwidth that the feedback of the call asked for.
C5_Witness ==
    /\ enc_calls > 1
    /\ RatLt(Rat(ENC_BITRATE, 1), enc_current_params.bitrate)
    /\ RatLt(enc_current_params.bitrate, Rat(TargetBitrate(enc_network_feedback), 1))

\* C6: every change of current_type to a class C happens only after 3
\* consecutive update() calls whose sample classified as C, from the
\* initial state and after every earlier change.
C6_ChangeAfterThreeAgreeing ==
    [][cls_current_type' # cls_current_type =>
        /\ Len(cls_detected') = TYPE_SWITCH_THRESHOLD
        /\ \A i \in 1..TYPE_SWITCH_THRESHOLD : cls_detected'[i] = cls_current_type']_vars

\* The packets the server put on the wire, as a receiver decodes them.
SentPackets == {Packet_deserialize(hist.srv_tx[i]) : i \in 1..Len(hist.srv_tx)}

\* The fragments of frame f the server put on the wire.
SentVideo(f) == {p \in SentPackets : p.packet_type = PACKET_TYPE_VIDEO /\ p.frame_index = f}

\* Every fragment of frame f went on the wire.
AllSent(f) == \E p \in SentVideo(f) : Cardinality(SentVideo(f)) = p.total_fragments

\* The client's receive loop read each of the packets and its process loop
\* handled each of them.
ClientHandledAll(packets) ==
    \A p \in packets :
        /\ p.seq_num \in client.received_seq_nums
        /\ \A i \in 1..Len(client.receive_queue) : client.receive_queue[i].seq_num # p.seq_num

\* The positions of frame f on the client's frame queue.
QueuedFrames(f) == {j \in 1..Len(client.frame_queue) : client.frame_queue[j].frame_index = f}

\* C8: for every frame with n > 1 fragments and every arrival order of its
\* n fragments, without loss or duplication, the client puts exactly one
\* frame on the frame queue and its data is the concatenation of the
\* fragments 0..n-1 in fragment_index order.
C8_AnyOrderOneFrame ==
    \A i \in 1..Len(hist.frames) :
        (/\ Cardinality(SentVideo(hist.frames[i].frame_index)) > 1
         /\ AllSent(hist.frames[i].frame_index)
         /\ ClientHandledAll(SentVideo(hist.frames[i].frame_index)))
        => /\ Cardinality(QueuedFrames(hist.frames[i].frame_index)) = 1
           /\ \A j \in QueuedFrames(hist.frames[i].frame_index) :
                    client.frame_queue[j].data = hist.frames[i].data

\* C9: every frame all of whose fragments the client has received is
\* delivered to the frame queue (when the queue has room), for every
\* total_fragments >= 1, the frames of a single fragment included.
C9_CompleteFrameDelivered ==
    \A i \in 1..Len(hist.frames) :
        (/\ AllSent(hist.frames[i].frame_index)
         /\ ClientHandledAll(SentVideo(hist.frames[i].frame_index))
         /\ Len(client.frame_queue) < FRAME_QUEUE_SIZE)
        => \E j \in QueuedFrames(hist.frames[i].frame_index) :
                client.frame_queue[j].data = hist.frames[i].data

\* The client holds the payload of the video packet o: as a fragment in its
\* reassembly buffer or in a frame it delivered.
ClientHasFragment(o) ==
    \/ \E f \in DOMAIN client.frame_fragments :
          \E k \in 1..Len(client.frame_fragments[f]) :
              /\ client.frame_fragments[f][k].frame_index = o.frame_index
              /\ client.frame_fragments[f][k].fragment_index = o.fragment_index
              /\ client.frame_fragments[f][k].payload = o.payload
    \/ QueuedFrames(o.frame_index) # {}

\* The source seq_nums of the FEC packet fec that the client never received.
MissingSources(fec) ==
    {fec.source_seq_nums[k] : k \in 1..Len(fec.source_seq_nums)} \ client.received_seq_nums

\* C3: for every FEC block of which the receiver has the parity packet and
\* all source packets but exactly one, the receiver reconstructs the
\* missing source packet, its payload equal to the original byte for byte.
C3_FecRecoversOneLoss ==
    \A fec \in {p \in SentPackets : p.packet_type = PACKET_TYPE_FEC} :
        (/\ fec.seq_num \in client.received_seq_nums
         /\ Cardinality(MissingSources(fec)) = 1
         /\ client.receive_queue = <<>>)
        => \A o \in SentPackets :
                (o.packet_type = PACKET_TYPE_VIDEO /\ o.seq_num \in MissingSources(fec))
                => ClientHasFragment(o)

\* The seq_nums the datagram data asks for, when it is a NACK: a control
\* packet whose body has missing_seqs.
NackBody(loaded) ==
    IF loaded.ok /\ DictHas(loaded.d, "missing_seqs")
    THEN {DictGet(loaded.d, "missing_seqs").l[k] :
            k \in 1..Len(DictGet(loaded.d, "missing_seqs").l)}
    ELSE {}

NackedSeqs(data) ==
    IF Len(data) >= HEADER_SIZE /\ data[1] = PACKET_TYPE_CONTROL
    THEN NackBody(JsonLoads(SliceFrom(data, HEADER_SIZE)))
    ELSE {}

\* C4: when the server receives a NACK naming the seq of a packet it
\* transmitted (one of its last 512), it retransmits that packet: the
\* packet is queued for sending or goes on the wire again.
C4_NackRetransmits ==
    [][\A q \in NackedSeqs(server'.rx_data) :
            (/\ server'.stats.received_packets > server.stats.received_packets
             /\ \E p \in SentPackets : p.seq_num = q)
            => \/ \E i \in 1..Len(server'.send_queue) : server'.send_queue[i].seq_num = q
               \/ \E i \in (Len(hist.srv_tx) + 1)..Len(hist'.srv_tx) :
                     Packet_deserialize(hist'.srv_tx[i]).seq_num = q]_vars

\* C7: once the session is established, every RTT sample a NetworkMonitor
\* records is no larger than the time since the last heartbeat sent by its
\* side.  (The clock of the model is in whole ticks, so that a sample of 0
\* stands for any time shorter than a tick: the formula leaves "strictly
\* positive" out.)
C7_RttWithinHeartbeatAge ==
    (client.is_connected /\ hist.rtt_obs.side # "none")
        => hist.rtt_obs.rtt <= hist.rtt_obs.since_hb

\* The seqs named by the NACKs that a step put on the client's send queue.
QueuedNackSeqs ==
    UNION {{client'.send_queue[i].ctrl_data[1].v.l[k] :
                k \in 1..Len(client'.send_queue[i].ctrl_data[1].v.l)} :
           i \in {j \in 1..Len(client'.send_queue) :
                    /\ client'.send_queue[j].packet_type = PACKET_TYPE_CONTROL
                    /\ client'.send_queue[j].seq_num >= client.next_seq_num}}

\* C11: every NACK the client queues names the lowest seqs still missing,
\* NACK_MAX_SEQS of them or all if fewer: a gap of 250 seqs goes out as its
\* 100 lowest, then the next 100, then the remaining 50.
C11_NackLowestFirst ==
    [][QueuedNackSeqs # {}
        => /\ QueuedNackSeqs \subseteq client.missing_seq_nums
           /\ Cardinality(QueuedNackSeqs) = Min(NACK_MAX_SEQS, Cardinality(client.missing_seq_nums))
           /\ \A x \in QueuedNackSeqs :
                 \A y \in client.missing_seq_nums \ QueuedNackSeqs : x < y]_vars

\* An iteration of the server's send loop that took a packet off the queue.
SendLoopStep == server'.stats.sent_packets = server.stats.sent_packets + 1

\* C12: when sendto fails for one of two registered peers, that peer leaves
\* self.clients in the same send attempt, the send loop keeps running, and
\* the packet of that attempt, like every later one, goes to every other
\* registered peer.
C12_SendFailureRemovesOnlyThatPeer ==
    [][SendLoopStep
        => /\ DOMAIN server'.clients = (DOMAIN server.clients) \ link.unreachable
           /\ server'.is_running
           /\ CLIENT_ADDR \in (DOMAIN server.clients) \ link.unreachable
                => wire'.to_client =
                        Append(wire.to_client,
                               Datagram(SERVER_ADDR, CLIENT_ADDR, serialize(Head(server.send_queue))))
           /\ PEER_ADDR \in (DOMAIN server.clients) \ link.unreachable
                => wire'.to_peer =
                        Append(wire.to_peer,
                               Datagram(SERVER_ADDR, PEER_ADDR, serialize(Head(server.send_queue))))]_vars

\* Both peers were registered, sendto failed for the client and the send
\* loop removed it; the other peer is still registered and has been sent
\* the packet of that attempt and a later one (every packet the send loop
\* took, after the reply to its heartbeat).
C12_Witness ==
    /\ link.unreachable = {CLIENT_ADDR}
    /\ hist.popped = {CLIENT_ADDR}
    /\ PEER_ADDR \in DOMAIN server.clients
    /\ server.stats.sent_packets >= 2
    /\ Len(wire.to_peer) = server.stats.sent_packets + peer.heartbeats

\* C13: a peer from which the server has received nothing for
\* inactivity_timeout is out of the registry by the time the send loop next
\* takes a packet: the send loop sends nothing to such a peer.
C13_SilentPeerNotSentTo ==
    [][SendLoopStep
        => \A a \in DOMAIN server.clients :
                now - server.clients[a].last_seen >= INACTIVITY_TIMEOUT
                    => /\ a \notin DOMAIN server'.clients
                       /\ ToAddr(wire'.to_client, a) = ToAddr(wire.to_client, a)]_vars

C15_FailureOnlyAfterTimeout ==
    [][(client'.phase = "failed" /\ client.phase = "connecting")
        => now - hist.hb_sent.client >= CONNECT_TIMEOUT]_vars

\* The seq_num of every datagram the server put on the wire, in order.
WireSeqs == [i \in 1..Len(hist.srv_tx) |-> Packet_deserialize(hist.srv_tx[i]).seq_num]

\* C19: no two datagrams the server puts on the wire carry the same
\* seq_num.
C19_WireSeqsDistinct ==
    \A i, j \in 1..Len(hist.srv_tx) : i # j => WireSeqs[i] # WireSeqs[j]

\* C16: after any sequence of update_network_feedback calls, the width,
\* height and fps selected are those of the tier of the current feedback
\* applied to the native width, height and fps of the construction.
C16_TierOfNativeSize ==
    enc_calls > 0
        => /\ enc_current_params.width =
                NewParams(ENC_WIDTH, ENC_HEIGHT, ENC_FPS, enc_network_feedback,
                          enc_current_params.bitrate).width
           /\ enc_current_params.height =
                NewParams(ENC_WIDTH, ENC_HEIGHT, ENC_FPS, enc_network_feedback,
                          enc_current_params.bitrate).height
           /\ enc_current_params.fps =
                NewParams(ENC_WIDTH, ENC_HEIGHT, ENC_FPS, enc_network_feedback,
                          enc_current_params.bitrate).fps

\* C17: the first frame the encoder emits after a reinitialisation caused
\* by a change of width, height or fps is a keyframe.
C17_KeyframeAfterReinit ==
    \A i \in 1..Len(enc_loop.output_queue) :
        enc_loop.output_queue[i].after_reinit => enc_loop.output_queue[i].is_keyframe

\* C18: on a clean link (packet_loss 0, rtt 20 ms) the payload size chosen
\* is 1400 bytes.
C18_CleanLinkPayload1400 ==
    (/\ pay_pc = "out"
     /\ pay_stats.packet_loss = Frac(0, 1)
     /\ pay_stats.rtt = Frac(20, 1))
        => pay_size = MAX_PAYLOAD_SIZE

\* C20: a duplicate of a fragment changes nothing: once the client has
\* handled all that the link delivered of a frame, a copy included, the
\* frame queue holds the frame once, with the bytes sent, as it does in the
\* run without the copy.  (The frames are those of several fragments on a
\* link that keeps the order: the run without a copy delivers each of them
\* once.)
C20_DuplicateIdempotent ==
    \A i \in 1..Len(hist.frames) :
        (/\ Cardinality(SentVideo(hist.frames[i].frame_index)) > 1
         /\ AllSent(hist.frames[i].frame_index)
         /\ ClientHandledAll(SentVideo(hist.frames[i].frame_index))
         /\ client.is_running
         /\ wire.to_client = <<>>
         /\ client.receive_queue = <<>>)
        => /\ Cardinality(QueuedFrames(hist.frames[i].frame_index)) = 1
           /\ \A j \in QueuedFrames(hist.frames[i].frame_index) :
                    client.frame_queue[j].data = hist.frames[i].data

\* C21: after every receive step no seq is both in missing_seq_nums and in
\* received_seq_nums: a seq that arrives leaves the missing set, so that a
\* packet that only arrived out of order is not requested by a NACK.
C21_MissingNotReceived ==
    client.missing_seq_nums \cap client.received_seq_nums = {}

\* retransmit_timeout of the specification, in ms.  (No code of the
\* repository reads it.)
RETRANSMIT_TIMEOUT == 300

\* The seqs a NACK named that have not arrived since: below
\* expected_seq_num, never received, and out of the missing set (which a
\* seq leaves only when the send queue takes the NACK that names it).
NackPending ==
    {q \in 0..(client.expected_seq_num - 1) :
        q \notin client.received_seq_nums \cup client.missing_seq_nums}

\* The link lost the video or FEC datagram of seq q: it went on the wire,
\* is no longer in flight and was never received.
LostOnLink(q) ==
    /\ q \notin client.received_seq_nums
    /\ \E k \in 1..Len(hist.srv_tx) :
            /\ hist.srv_tx[k][1] \in {PACKET_TYPE_VIDEO, PACKET_TYPE_FEC}
            /\ Packet_deserialize(hist.srv_tx[k]).seq_num = q
            /\ \A i \in 1..Len(wire.to_client) : wire.to_client[i].data # hist.srv_tx[k]

\* An iteration of the client's send loop that sent or queued a packet.
ClientSendStep ==
    \/ client'.stats.sent_packets # client.stats.sent_packets
    \/ (client.is_running /\ client'.next_seq_num # client.next_seq_num)

\* C22: a seq that a NACK named at least retransmit_timeout ago and that
\* has not arrived is back in the missing set, or in a new NACK, when the
\* send loop has run.
C22_NackedSeqRequeued ==
    [][(ClientSendStep /\ now - client.last_nack_time >= RETRANSMIT_TIMEOUT)
        => \A q \in NackPending :
                LostOnLink(q) => q \in client'.missing_seq_nums \cup QueuedNackSeqs]_vars

\* The FEC packets queued for the blocks completed so far are n per block,
\* and the packets of no complete block wait in the buffer.
FecPerBlock(n) ==
    /\ Len(fec_gen.queued) = (fec_gen.sources \div fec_gen.fec_block_size) * n
    /\ Len(fec_gen.fec_buffer) = fec_gen.sources % fec_gen.fec_block_size

\* ceil(a / b) and floor(a / b) for a >= 0, b > 0
CeilDiv(a, b) == (a + b - 1) \div b

\* C23: for each block of k source packets the sender emits
\* ceil(k * overhead) FEC packets, for every k and every overhead in
\* [0.05, 0.5].
C23_FecCountCeil ==
    fec_gen.pc = "run"
        => FecPerBlock(CeilDiv(fec_gen.fec_block_size * fec_gen.fec_overhead, 100))

\* C23 as amended: the sender emits floor(k * overhead) FEC packets per
\* block, and one when that is zero.
C23_FecCountFloor ==
    fec_gen.pc = "run"
        => FecPerBlock(IF fec_gen.fec_block_size * fec_gen.fec_overhead < 100 THEN 1
                       ELSE (fec_gen.fec_block_size * fec_gen.fec_overhead) \div 100)

\* Two blocks of eight went through at overhead 0.30 (2.4 packets a block).
C23_Witness ==
    /\ fec_gen.pc = "run"
    /\ fec_gen.fec_block_size = 8
    /\ fec_gen.fec_overhead = 30
    /\ fec_gen.sources = 16
    /\ Len(fec_gen.queued) = 4

\* The video packets of no keyframe that wait in the server's send queue.
PendingNonKey ==
    {i \in 1..Len(server.send_queue) :
        /\ server.send_queue[i].packet_type = PACKET_TYPE_VIDEO
        /\ ~is_keyframe(server.send_queue[i])}

\* send_video_frame is called with a keyframe while the send queue is full.
KeyframeOnFullQueue ==
    /\ app_frames # <<>>
    /\ app_frames' = Tail(app_frames)
    /\ Head(app_frames).is_keyframe
    /\ DOMAIN server.clients # {}
    /\ Len(server.send_queue) = SEND_QUEUE_SIZE

\* C24: when the send queue is full and the packet to enqueue is a
\* keyframe fragment, a pending non-keyframe packet is dropped in its
\* place if one is queued: the keyframe fragment is in the queue after the
\* call.
C24_KeyframeReplacesPending ==
    [][(KeyframeOnFullQueue /\ PendingNonKey # {})
        => \E i \in 1..Len(server'.send_queue) :
                /\ server'.send_queue[i].packet_type = PACKET_TYPE_VIDEO
                /\ server'.send_queue[i].seq_num = server.next_seq_num
                /\ is_keyframe(server'.send_queue[i])]_vars

\* recvfrom returns a datagram that the server the session was set up with
\* did not send.
ForeignDatagramRead ==
    /\ wire.to_client # <<>>
    /\ wire.to_client[1].src # client.server_addr
    /\ wire'.to_client = Tail(wire.to_client)

\* C25: the client processes a datagram (seq tracking, reassembly,
\* statistics), and accepts a heartbeat reply in connect(), only when the
\* datagram's source address and port both equal the server address of
\* the session.
C25_OnlyServerDatagrams ==
    [][ForeignDatagramRead
        => /\ client'.is_connected = client.is_connected
           /\ client'.received_seq_nums = client.received_seq_nums
           /\ client'.missing_seq_nums = client.missing_seq_nums
           /\ client'.receive_queue = client.receive_queue
           /\ client'.stats = client.stats]_vars

\* C26: a malformed datagram (a packet_kind that names no kind, or a
\* control or heartbeat body that is not UTF-8 JSON) is rejected by the
\* decoder: it returns no packet object.
C26_MalformedRejected ==
    codec_pc = "decoded damaged" => codec_out = NoneVal

\* The video packets the client's process loop has handled: sent, received
\* and no longer in the receive queue.
HandledVideo ==
    {p \in SentPackets :
        /\ p.packet_type = PACKET_TYPE_VIDEO
        /\ p.seq_num \in client.received_seq_nums
        /\ \A i \in 1..Len(client.receive_queue) : client.receive_queue[i].seq_num # p.seq_num}

\* C27: after the client handles a video packet its reassembly table holds
\* no entry whose frame_index is more than 30 behind the highest
\* frame_index seen so far, complete or not.
C27_TableWithinWindow ==
    \A f \in DOMAIN client.frame_fragments :
        \A p \in HandledVideo : p.frame_index - f <= KEEP_COUNT

\* Frame g, sent right after frame f, is complete at the client (every
\* fragment of it was handled) while frame f is not.
CompleteBefore(f, g) ==
    /\ SentVideo(f) # {}
    /\ ~ClientHandledAll(SentVideo(f))
    /\ AllSent(g)
    /\ ClientHandledAll(SentVideo(g))

\* C28: if frame F+1 becomes complete at the client while frame F is still
\* incomplete, F+1 is on the frame queue at once: as soon as its last
\* packet is handled, whatever the state of F.
C28_NextFrameNotHeldBack ==
    \A i \in 1..(Len(hist.frames) - 1) :
        (/\ hist.frames[i + 1].frame_index = hist.frames[i].frame_index + 1
         /\ CompleteBefore(hist.frames[i].frame_index, hist.frames[i + 1].frame_index)
         /\ Len(client.frame_queue) < FRAME_QUEUE_SIZE)
        => \E j \in QueuedFrames(hist.frames[i + 1].frame_index) :
                client.frame_queue[j].data = hist.frames[i + 1].data

\* v is round(num / den): an integer nearest to it (either one at a tie).
IsRounded(v, num, den) == Abs(2 * (v * den - num)) <= den

\* C29: for every ROI weight w in [0, 1] and every max_delta,
\* get_qp_delta_map gives the cell round((1 - w) * max_delta); the value
\* lies in [0, max_delta] and never increases when w increases.
C29_QpDeltaRounded ==
    roi_qp.pc = "out"
        => /\ \A cell \in DOMAIN roi_qp.qp_delta_map :
                /\ IsRounded(roi_qp.qp_delta_map[cell],
                             (ROI_DEN - roi_qp.roi_weights[cell]) * roi_qp.max_delta, ROI_DEN)
                /\ roi_qp.qp_delta_map[cell] \in 0..roi_qp.max_delta
           /\ \A a, b \in DOMAIN roi_qp.qp_delta_map :
                roi_qp.roi_weights[a] <= roi_qp.roi_weights[b]
                    => roi_qp.qp_delta_map[a] >= roi_qp.qp_delta_map[b]

\* max_clients, the default of TransportServer.__init__
MAX_CLIENTS == 1

\* C30: in every reachable state the number of peers in the server's
\* client registry is at most max_clients, whatever heartbeat and control
\* packets arrive from distinct addresses.
C30_RegistryWithinMaxClients ==
    Cardinality(DOMAIN server.clients) <= MAX_CLIENTS

\* C31: for every mouse position (inside, on the edge of, or outside the
\* frame) and every sequence of detect_roi calls on frames of the
\* configured size, the returned ROI lies inside the frame: x >= 0,
\* y >= 0, x + width <= frame_width and y + height <= frame_height.
C31_RoiInsideFrame ==
    (roi_det.pc = "run" /\ roi_det.returned # NoneVal)
        => /\ roi_det.returned.x >= 0
           /\ roi_det.returned.y >= 0
           /\ roi_det.returned.x + roi_det.returned.width <= roi_det.frame_width
           /\ roi_det.returned.y + roi_det.returned.height <= roi_det.frame_height

\* A call after the first one, with the mouse outside the frame: the ROI
\* returned touches the right and the lower edge.
C31_Witness ==
    /\ roi_det.pc = "run"
    /\ roi_det.returned # NoneVal
    /\ roi_det.prev_gray
    /\ roi_det.mouse = "outside"
    /\ roi_det.returned.x > 0
    /\ roi_det.returned.x + roi_det.returned.width = roi_det.frame_width
    /\ roi_det.returned.y + roi_det.returned.height = roi_det.frame_height

\* C32: after every interleaving of packet_sent and packet_received calls,
\* repeated and never-sent seq_nums included, packet_received_count is at
\* most packet_sent_count and the reported packet_loss lies in [0, 1].
C32_ReceivedAtMostSent ==
    mon.pc = "run"
        => /\ mon.m.packet_received_count <= mon.m.packet_sent_count
           /\ FracLe(Frac(0, 1), get_current_stats(mon.m).packet_loss)
           /\ FracLe(get_current_stats(mon.m).packet_loss, Frac(1, 1))

C32_Witness ==
    /\ mon.pc = "run"
    /\ mon.unsent /\ mon.repeated
    /\ mon.m.packet_received_count = 1
    /\ mon.m.packet_sent_count = 2
    /\ Len(mon.m.loss_window) >= 3

\* The receive loop has read the oldest datagram in flight to the server,
\* and the datagram decodes.
DecodedDatagramRead ==
    /\ server.is_running
    /\ wire.to_server # <<>>
    /\ wire'.to_server = Tail(wire.to_server)
    /\ Packet_deserialize(Head(wire.to_server).data) # NoneVal

\* C33: every packet the server receives that decodes, whatever its kind
\* and body (a STATS control packet carrying rtt and packet_loss included),
\* leaves the sender's address in the client registry with last_seen
\* refreshed, and the receive loop goes on to record the packet.
C33_DecodedPacketRegistersSender ==
    [][DecodedDatagramRead
        => /\ Head(wire.to_server).src \in DOMAIN server'.clients
           /\ server'.clients[Head(wire.to_server).src].last_seen = now
           /\ server'.network_monitor =
                  packet_received(server.network_monitor,
                                  Packet_deserialize(Head(wire.to_server).data), now)]_vars

\* C34: a frame of F > 0 bytes gives ceil(F / max_payload_size) packets
\* with consecutive seq_nums from seq_start and fragment_index 0..n-1, all
\* with the frame's frame_index and total_fragments = n; KEYFRAME is on all
\* of them iff the frame is a keyframe, FRAGMENT on all iff n > 1, and
\* FRAGMENT_END on no fragment other than the last.
C34_FragmentsNumberedAndFlagged ==
    (frag_pc \in {"fragmented", "reassembled"} /\ Len(frag_in.data) > 0)
        => /\ Len(frag_pkts) * frag_in.max_payload_size >= Len(frag_in.data)
           /\ (Len(frag_pkts) - 1) * frag_in.max_payload_size < Len(frag_in.data)
           /\ \A k \in 1..Len(frag_pkts) :
                /\ frag_pkts[k].seq_num = frag_in.seq_start + k - 1
                /\ frag_pkts[k].fragment_index = k - 1
                /\ frag_pkts[k].frame_index = frag_in.frame_index
                /\ frag_pkts[k].total_fragments = Len(frag_pkts)
                /\ is_keyframe(frag_pkts[k]) <=> frag_in.is_keyframe
                /\ is_fragment(frag_pkts[k]) <=> Len(frag_pkts) > 1
                /\ is_last_fragment(frag_pkts[k]) => k = Len(frag_pkts)

C34_Witness ==
    /\ frag_pc = "fragmented"
    /\ Len(frag_in.data) = 2 * MIN_PAYLOAD_SIZE + 1
    /\ frag_in.max_payload_size = MIN_PAYLOAD_SIZE
    /\ frag_in.is_keyframe
    /\ frag_in.seq_start = 41
    /\ Len(frag_pkts) = 3
    /\ is_last_fragment(frag_pkts[3])

\* One call of update_network_feedback.
FeedbackUpdated == enc_calls' = enc_calls + 1

\* The (width, height, fps) selected by the call differs from the current one.
SelectionDiffers ==
    <<enc_current_params'.width, enc_current_params'.height, enc_current_params'.fps>>
        # <<enc_current_params.width, enc_current_params.height, enc_current_params.fps>>

\* C35: update_network_feedback flags an encoder reinit if and only if the
\* newly selected (width, height, fps) differs from the current one; when
\* they are equal the flag and the encoder's size are left as they were
\* (the encoder instance is kept) and only bitrate and base_qp change.
C35_ReinitIffSelectionDiffers ==
    [][FeedbackUpdated
        => /\ SelectionDiffers => enc_need_reinit'
           /\ ~SelectionDiffers
                => /\ enc_need_reinit' = enc_need_reinit
                   /\ <<enc_width', enc_height', enc_fps'>> = <<enc_width, enc_height, enc_fps>>
                   /\ enc_loop' = enc_loop]_vars

\* Calls that kept the selection and changed the bitrate, no reinit flagged.
C35_Witness ==
    /\ enc_calls >= 2
    /\ ~enc_need_reinit
    /\ enc_current_params.width = ENC_WIDTH
    /\ enc_current_params.fps = ENC_FPS
    /\ enc_current_params.base_qp = 23
    /\ enc_current_params.bitrate # Rat(ENC_BITRATE, 1)

JOIN_TIMEOUT == 1000

\* settimeout(0.1) of the receive loop and get(timeout=0.1) of the send loop
LOOP_TIMEOUT == 100

\* time.sleep(1.0) of the send loop while no client is registered
NO_CLIENT_SLEEP == 1000

\* stop() is called at most this long after start(), and this many datagrams
\* reach the server.
MaxRunMs == 2
MaxStopInbound == 1

\* The server constructed: no thread yet, the socket bound.
StopInit ==
    /\ server = TransportServer(EPOCH)
    /\ client = TransportClient(EPOCH)
    /\ wire = [to_server |-> <<>>, to_client |-> <<>>, to_peer |-> <<>>]
    /\ now = EPOCH
    /\ hist = HistNew
    /\ peer = [heartbeats |-> 0]
    /\ link = [reorder |-> FALSE, max_lost |-> 0, unreachable |-> {}, max_dup |-> 0,
               max_forged |-> 0]
    /\ app_frames = <<>>
    /\ threads = [socket |-> "open", arrived |-> 0,
                  stop |-> [pc |-> "new", deadline |-> 0],
                  receive |-> [pc |-> "none", wake |-> 0],
                  send |-> [pc |-> "none", wake |-> 0]]

stop_unch == <<client, wire, link, app_frames, hist, peer, not_stream>>

\* TransportServer.start: the flag, then both threads
WorkersStart ==
    /\ threads.stop.pc = "new"
    /\ server' = [server EXCEPT !.is_running = TRUE]
    /\ threads' = [threads EXCEPT !.stop.pc = "started",
                                  !.receive.pc = "test", !.send.pc = "test"]
    /\ UNCHANGED <<now, stop_unch>>

\* _receive_loop: while self.is_running, then settimeout and recvfrom
ReceiveLoopTest ==
    /\ threads.receive.pc = "test"
    /\ threads' = [threads EXCEPT
            !.receive = IF server.is_running
                        THEN [pc |-> "recvfrom", wake |-> now + LOOP_TIMEOUT]
                        ELSE [pc |-> "done", wake |-> 0]]
    /\ UNCHANGED <<server, now, stop_unch>>

\* recvfrom returns: socket.timeout when the time is up, or a first
\* heartbeat of a client before that, handled to the end of the iteration.
ReceiveLoopReturn ==
    /\ threads.receive.pc = "recvfrom"
    /\ \/ /\ now = threads.receive.wake
          /\ threads' = [threads EXCEPT !.receive = [pc |-> "test", wake |-> 0]]
          /\ UNCHANGED server
       \/ /\ threads.socket = "open"
          /\ threads.arrived < MaxStopInbound
          /\ server' = server_receive(server,
                            serialize(HeartbeatPacket(0, now * 1000, <<>>)),
                            CLIENT_ADDR, now).s
          /\ threads' = [threads EXCEPT !.receive = [pc |-> "test", wake |-> 0],
                                        !.arrived = @ + 1]
    /\ UNCHANGED <<now, stop_unch>>

\* _send_loop: while self.is_running, then the sleep of a server without
\* clients or the get on the send queue
SendLoopTest ==
    /\ threads.send.pc = "test"
    /\ threads' = [threads EXCEPT
            !.send = IF ~server.is_running THEN [pc |-> "done", wake |-> 0]
                     ELSE IF DOMAIN server.clients = {}
                     THEN [pc |-> "sleep", wake |-> now + NO_CLIENT_SLEEP]
                     ELSE [pc |-> "get", wake |-> now + LOOP_TIMEOUT]]
    /\ UNCHANGED <<server, now, stop_unch>>

\* the sleep is over, or the get on the empty queue timed out: continue
SendLoopReturn ==
    /\ threads.send.pc \in {"sleep", "get"}
    /\ server.send_queue = <<>>
    /\ now = threads.send.wake
    /\ threads' = [threads EXCEPT !.send = [pc |-> "test", wake |-> 0]]
    /\ UNCHANGED <<server, now, stop_unch>>

\* stop(): self.is_running = False, then the join of the receive thread
StopFlag ==
    /\ threads.stop.pc = "started"
    /\ server' = [server EXCEPT !.is_running = FALSE]
    /\ threads' = [threads EXCEPT
            !.stop = [pc |-> "join_receive", deadline |-> now + JOIN_TIMEOUT]]
    /\ UNCHANGED <<now, stop_unch>>

\* thread.join(timeout) returns: the thread ended or the time is up.
Joined(thread) == thread.pc = "done" \/ now >= threads.stop.deadline

\* stop(): receive_thread.join returned, the join of the send thread begins
StopJoinReceive ==
    /\ threads.stop.pc = "join_receive"
    /\ Joined(threads.receive)
    /\ threads' = [threads EXCEPT
            !.stop = [pc |-> "join_send", deadline |-> now + JOIN_TIMEOUT]]
    /\ UNCHANGED <<server, now, stop_unch>>

\* stop(): send_thread.join returned
StopJoinSend ==
    /\ threads.stop.pc = "join_send"
    /\ Joined(threads.send)
    /\ threads' = [threads EXCEPT !.stop = [pc |-> "close", deadline |-> 0]]
    /\ UNCHANGED <<server, now, stop_unch>>

\* stop(): self.socket.close()
StopClose ==
    /\ threads.stop.pc = "close"
    /\ threads' = [threads EXCEPT !.socket = "closed", !.stop.pc = "stopped"]
    /\ UNCHANGED <<server, now, stop_unch>>

\* The times at which a wait in progress ends.
StopDeadlines ==
    {threads.receive.wake : x \in {y \in {1} : threads.receive.pc = "recvfrom"}}
        \cup {threads.send.wake : x \in {y \in {1} : threads.send.pc \in {"sleep", "get"}}}
        \cup {threads.stop.deadline :
                    x \in {y \in {1} : threads.stop.pc \in {"join_receive", "join_send"}}}

\* No thread can take a step without waiting.
AllWaiting ==
    /\ threads.receive.pc \in {"recvfrom", "done"}
    /\ threads.send.pc \in {"sleep", "get", "done"}
    /\ threads.stop.pc \in {"started", "join_receive", "join_send", "stopped"}
    /\ threads.stop.pc = "join_receive" => threads.receive.pc # "done"
    /\ threads.stop.pc = "join_send" => threads.send.pc # "done"

\* Time passes while every thread waits: by a millisecond while the server
\* runs, and to the end of the first wait to end.
StopTick ==
    /\ AllWaiting
    /\ \/ /\ threads.stop.pc = "started"
          /\ now < EPOCH + MaxRunMs
          /\ now' = now + 1
       \/ /\ threads.stop.pc # "started"
          /\ StopDeadlines # {}
          /\ \E d \in StopDeadlines :
                /\ \A e \in StopDeadlines : d <= e
                /\ d > now
                /\ now' = d
    /\ UNCHANGED <<server, threads, stop_unch>>

InitStop == StopInit /\ FragIdle /\ CodecIdle /\ EncInit /\ ClsInit /\ PayIdle /\ CalcIdle

NextStop ==
    \/ WorkersStart
    \/ ReceiveLoopTest
    \/ ReceiveLoopReturn
    \/ SendLoopTest
    \/ SendLoopReturn
    \/ StopFlag
    \/ StopJoinReceive
    \/ StopJoinSend
    \/ StopClose
    \/ StopTick

SpecStop == InitStop /\ [][NextStop]_vars

\* C37: when stop() has closed the socket, every worker loop started by
\* start() has terminated.
C37_WorkersDoneWhenSocketCloses ==
    threads.socket = "closed" =>
        /\ threads.receive.pc = "done"
        /\ threads.send.pc = "done"

\* One FEC packet of each block, in the order the blocks were formed: the
\* last of the packets that carry the same sources.
RECURSIVE FecBlocks(_)
FecBlocks(queued) ==
    IF queued = <<>> THEN <<>>
    ELSE IF Len(queued) > 1 /\ queued[2].source_packets = queued[1].source_packets
    THEN FecBlocks(Tail(queued))
    ELSE <<queued[1]>> \o FecBlocks(Tail(queued))

\* The blocks of FEC packets b, and after them the packets still buffered,
\* are the video packets in send order, fec_block_size to a block and
\* fewer in the buffer, and block_index grows from each block to the next.
BlocksPartition(b) ==
    /\ \A i \in 1..Len(b) : Len(b[i].source_packets) = fec_gen.fec_block_size
    /\ \A i, j \in 1..Len(b) :
            i < j => \A x \in 1..Len(b[i].source_packets), y \in 1..Len(b[j].source_packets) :
                        b[i].source_packets[x] # b[j].source_packets[y]
    /\ Concat([i \in 1..Len(b) |-> b[i].source_packets])
            \o [i \in 1..Len(fec_gen.fec_buffer) |-> fec_gen.fec_buffer[i].seq_num]
         = fec_gen.video
    /\ Len(fec_gen.fec_buffer) < fec_gen.fec_block_size
    /\ \A i \in 1..(Len(b) - 1) : b[i].block_index < b[i + 1].block_index

\* C38: the FEC blocks partition the stream of video packets in send order:
\* every block has fec_block_size sources, no packet is in two blocks, fewer
\* than fec_block_size packets stay buffered after a send_video_frame, and
\* block_index strictly increases from one block to the next.
C38_FecBlocksPartitionStream ==
    fec_gen.pc = "run" => BlocksPartition(FecBlocks(fec_gen.queued))

\* Two frames of four packets in blocks of three: the second block holds
\* the last packet of the first frame and two of the second, and two
\* packets wait.
C38_Witness ==
    /\ fec_gen.pc = "run"
    /\ fec_gen.fec_block_size = 3
    /\ fec_gen.calls = 2
    /\ Len(FecBlocks(fec_gen.queued)) = 2
    /\ FecBlocks(fec_gen.queued)[2].source_packets = <<4, 6, 7>>
    /\ Len(fec_gen.fec_buffer) = 2

\* C39: a call of send_video_frame while no client is registered returns
\* False and leaves next_seq_num, the send queue and the FEC buffer as they
\* were.
C39_NoClientNothingSent ==
    [][(app_frames' # app_frames /\ DOMAIN server.clients = {})
        => /\ hist'.returned = <<FALSE>>
           /\ server'.next_seq_num = server.next_seq_num
           /\ server'.send_queue = server.send_queue
           /\ server'.fec_buffer = server.fec_buffer]_vars

\* The started server was handed its first frame before any client had
\* registered, and a client registered afterwards.
C39_Witness ==
    /\ server.is_running
    /\ hist.returned = <<FALSE>>
    /\ hist.frames = <<>>
    /\ DOMAIN server.clients # {}
    /\ server.next_seq_num = 1
    /\ server.send_queue = <<>>
    /\ server.fec_buffer = <<>>

\* C40: with one client on a link that loses, duplicates and reorders
\* nothing, the client's missing set is empty in every state from connect()
\* on, and no NACK waits in its send queue or travels to the server.
C40_CleanLinkNothingMissing ==
    /\ client.missing_seq_nums = {}
    /\ \A i \in 1..Len(client.send_queue) :
            client.send_queue[i].packet_type # PACKET_TYPE_CONTROL
    /\ \A i \in 1..Len(wire.to_server) : NackedSeqs(wire.to_server[i].data) = {}

====
